---- MODULE Spec2Model ----
(***************************************************************************)
(* FIT-Sec tool-call security runtime (nanobot.fitsec) and the secure      *)
(* registry facade (nanobot.agent.tools.secure_registry).                  *)
(*                                                                         *)
(* Numbers that are floats in the source (metric observations, thresholds) *)
(* are integers in thousandths; wall-clock time is the integer `now`.      *)
(* Strings built with f-strings are tuples of their pieces.                *)
(***************************************************************************)
EXTENDS Integers, Sequences, FiniteSets, TLC

\* ------------------------------------------------------------------ bounds

\* wall-clock time runs from 0 to MaxClock
MaxClock == 2
\* a run makes at most MaxCalls execute calls (runtime or facade) and ends with the last
MaxCalls == 1
MaxWindowCalls == 2
MaxTasks == 2

\* ------------------------------------------------------------------ values

\* Optional[T]: None is the empty tuple, a present value v is <<v>>.
None == <<>>
Some(v) == <<v>>
IsNone(o) == o = <<>>
Val(o) == o[1]

\* an empty Python dict
EmptyDict == [x \in {} |-> {}]

OMEGA_0 == "OMEGA_0"
OMEGA_1 == "OMEGA_1"
OMEGA_2 == "OMEGA_2"
UNKNOWN == "UNKNOWN"
OmegaLevel == {OMEGA_0, OMEGA_1, OMEGA_2, UNKNOWN}
\* OmegaLevel.value, as it is rendered in a message
OmegaValue(omega) ==
    CASE omega = OMEGA_0 -> "0" [] omega = OMEGA_1 -> "1" [] omega = OMEGA_2 -> "2" [] OTHER -> "99"

ALLOW == "ALLOW"
DENY == "DENY"
REVIEW == "REVIEW"
Decision == {ALLOW, DENY, REVIEW}

PASS == "PASS"
FAIL_FPR == "FAIL_FPR"
FAIL_COVERAGE == "FAIL_COVERAGE"
FAIL_CALIBRATION == "FAIL_CALIBRATION"
FAIL_LEAD_TIME == "FAIL_LEAD_TIME"
FailStatus == {FAIL_FPR, FAIL_COVERAGE, FAIL_CALIBRATION, FAIL_LEAD_TIME}
GateStatus == {PASS, UNKNOWN} \cup FailStatus

NORMAL == "NORMAL"
EMPTINESS == "EMPTINESS"

\* ------------------------------------------------------------------ inputs

\* Tool ids a manifest is registered under, and an id nobody registers.
ToolIds == {"tool"}
Ghost == "ghost"
CallIds == ToolIds \cup {Ghost}

Actions == {"execute", "run"}

\* ToolCall: tool_id and action (args and context decide nothing here).
NoArgs == "{}"
\* ToolCall(tool_id, action, args)
ToolCallArgs(t, a, args) == [tool_id |-> t, action |-> a, args |-> args]
\* ToolCall(tool_id, action): args at its default, the empty dict
ToolCall(t, a) == ToolCallArgs(t, a, NoArgs)
Calls == {ToolCall(t, a) : t \in ToolIds, a \in Actions} \cup {ToolCall(Ghost, "execute")}

\* Persisted policy documents (key "grants") the engine is constructed from.
GrantTables == { EmptyDict, [t \in ToolIds |-> {"run"}], [t \in ToolIds |-> {"*"}] }

EmergencyReasons == {"incident"}
\* reasons of successive emergency activations
LatchReasons == {"incident", "breach"}
EmptinessReasons == {"drill"}
\* reasons of successive windows
CycleReasons == {"drill", "alarm"}
Durations == {1, 2}

\* GateMetrics with the dataclass defaults for the thresholds.
GateMetrics(fpr, cov, cal, mean, std) ==
    [fpr |-> fpr, fpr_target |-> 50,
     coverage_at_fpr |-> cov, coverage_target |-> 800,
     calibration_score |-> cal, calibration_threshold |-> 700,
     lead_time_mean |-> mean, lead_time_std |-> std, lead_time_cv_max |-> 500]

MetricSamples ==
    { GateMetrics(None, None, None, None, None),
      GateMetrics(Some(200), None, None, None, None),
      GateMetrics(Some(50), Some(700), None, None, None),
      GateMetrics(None, Some(800), Some(600), None, None),
      GateMetrics(None, None, Some(700), Some(10), Some(6)) }

\* Snapshots around every threshold: each observation absent, at its threshold, or just
\* on the failing side of it; the lead-time mean also zero and negative.
GateSamples ==
    { GateMetrics(fpr, cov, cal, mean, std) :
        fpr \in {None, Some(50), Some(51)},
        cov \in {None, Some(800), Some(799)},
        cal \in {None, Some(700), Some(699)},
        mean \in {None, Some(10), Some(0), Some(-10)},
        std \in {None, Some(5), Some(6)} }

\* ------------------------------------------------------------------ state

VARIABLES
    strict_mode,          \* FitSecRuntime.strict_mode
    default_omega2_deny,  \* PolicyEngine.default_omega2_deny
    grants,               \* PolicyEngine._grants: tool_id -> set of actions
    omega2_approvals,     \* PolicyEngine._omega2_approvals: tool_id -> expiry
    blocked_tools,        \* PolicyEngine._blocked_tools
    tools,                \* ToolRegistry._tools: tool_id -> omega level of the manifest
    executors,            \* ToolRegistry._executors: tool ids with an executor
    facade_tools,         \* SecureToolRegistry._registry: tool names of the user registry
    metrics,              \* MonitorabilityGate._metrics
    emergency_active,     \* EmergencyGate._emergency_active
    emergency_reason,     \* EmergencyGate._reason
    emp_state,            \* EmptinessWindow._state
    activated_at,         \* EmptinessWindow._activated_at
    activation_reason,    \* EmptinessWindow._activation_reason
    blocked_calls,        \* EmptinessWindow._blocked_calls
    review_packets,       \* EmptinessWindow._review_packets
    entries,              \* AuditLogger._entries
    now,                  \* time.time()
    ncalls,               \* execute calls made so far
    last,                 \* the operation just performed, when it was an execute call:
                          \* what it did and what it gave its caller
    arrivals,             \* the calls that entered SecureToolRegistry.execute as
                          \* concurrent tasks, in the order they arrived
    inflight,             \* the tasks suspended at "await self._registry.execute"
    log_to_file,          \* AuditLogger: _log_path is set and _in_memory is False
    sink_up,              \* whether a write to the audit file succeeds at present
    durable               \* the records in the audit file

vars == <<strict_mode, default_omega2_deny, grants, omega2_approvals, blocked_tools,
          tools, executors, facade_tools, metrics, emergency_active, emergency_reason,
          emp_state, activated_at, activation_reason, blocked_calls, review_packets,
          entries, now, ncalls, last, arrivals, inflight, log_to_file, sink_up, durable>>

config_vars == <<strict_mode, default_omega2_deny, grants>>
async_vars == <<arrivals, inflight>>
sink_vars == <<log_to_file, sink_up, durable>>
policy_vars == <<omega2_approvals, blocked_tools>>
registry_vars == <<tools, executors, facade_tools>>
emergency_vars == <<emergency_active, emergency_reason>>
emptiness_vars == <<emp_state, activated_at, activation_reason, blocked_calls, review_packets>>

NoToolCall == ToolCall("", "")
NoCall == [api |-> "none", call |-> NoToolCall, dry_run |-> FALSE, raised |-> "",
           message |-> <<>>, result |-> None, invoked |-> FALSE, pruned |-> FALSE,
           packet |-> None]

\* FitSecRuntime(policy_path, audit_path, strict_mode): audit_path_given says whether
\* audit_path was passed, so that the audit logger writes to a file
RuntimeInit(audit_path_given) ==
    /\ strict_mode \in BOOLEAN
    /\ default_omega2_deny \in BOOLEAN
    /\ grants \in GrantTables
    /\ omega2_approvals = EmptyDict
    /\ blocked_tools = {}
    /\ tools = EmptyDict
    /\ executors = {}
    /\ facade_tools = {}
    /\ metrics = None
    /\ emergency_active = FALSE
    /\ emergency_reason = ""
    /\ emp_state = NORMAL
    /\ activated_at = None
    /\ activation_reason = ""
    /\ blocked_calls = <<>>
    /\ review_packets = <<>>
    /\ entries = <<>>
    /\ now = 0
    /\ ncalls = 0
    /\ last = NoCall
    /\ arrivals = <<>>
    /\ inflight = {}
    /\ log_to_file = audit_path_given
    /\ sink_up = TRUE
    /\ durable = <<>>

\* A runtime with the in-memory audit log
Init == RuntimeInit(FALSE)

\* ------------------------------------------------------------------ dict helpers

\* d[k] = v on a Python dict
DictSet(d, k, v) == [x \in DOMAIN d \cup {k} |-> IF x = k THEN v ELSE d[x]]
\* del d[k] / d.pop(k, None)
DictDel(d, k) == [x \in DOMAIN d \ {k} |-> d[x]]

\* ------------------------------------------------------------------ ToolRegistry

\* ToolRegistry.get_manifest: the manifest (its omega level) or None
get_manifest(tool_id) == IF tool_id \in DOMAIN tools THEN Some(tools[tool_id]) ELSE None

\* a registry that finds an executor for every tool
get_executor_Any(tool_id) == TRUE

\* ToolRegistry.get_executor: whether an executor is registered
get_executor(tool_id) == tool_id \in executors

\* ------------------------------------------------------------------ MonitorabilityGate

\* a check whose thresholds are inclusive: a value equal to its threshold fails
GateCheckOn_Inclusive(m) ==
    IF IsNone(m) THEN UNKNOWN
    ELSE LET g == Val(m) IN
         IF ~IsNone(g.fpr) /\ Val(g.fpr) >= g.fpr_target THEN FAIL_FPR
         ELSE IF ~IsNone(g.coverage_at_fpr) /\ Val(g.coverage_at_fpr) <= g.coverage_target
              THEN FAIL_COVERAGE
         ELSE IF ~IsNone(g.calibration_score) /\ Val(g.calibration_score) <= g.calibration_threshold
              THEN FAIL_CALIBRATION
         ELSE IF /\ ~IsNone(g.lead_time_mean) /\ ~IsNone(g.lead_time_std)
                 /\ Val(g.lead_time_mean) > 0
                 /\ Val(g.lead_time_std) * 1000 >= g.lead_time_cv_max * Val(g.lead_time_mean)
              THEN FAIL_LEAD_TIME
         ELSE PASS

\* MonitorabilityGate.check on a metrics snapshot (None: no snapshot)
GateCheckOn(m) ==
    IF IsNone(m) THEN UNKNOWN
    ELSE LET g == Val(m) IN
         IF ~IsNone(g.fpr) /\ Val(g.fpr) > g.fpr_target THEN FAIL_FPR
         ELSE IF ~IsNone(g.coverage_at_fpr) /\ Val(g.coverage_at_fpr) < g.coverage_target
              THEN FAIL_COVERAGE
         ELSE IF ~IsNone(g.calibration_score) /\ Val(g.calibration_score) < g.calibration_threshold
              THEN FAIL_CALIBRATION
         ELSE IF /\ ~IsNone(g.lead_time_mean) /\ ~IsNone(g.lead_time_std)
                 /\ Val(g.lead_time_mean) > 0
                 \* cv = std / mean > cv_max, in thousandths
                 /\ Val(g.lead_time_std) * 1000 > g.lead_time_cv_max * Val(g.lead_time_mean)
              THEN FAIL_LEAD_TIME
         ELSE PASS

\* self.gate.check()
GateCheck == GateCheckOn(metrics)

\* MonitorabilityGate.get_failure_reason (numbers rendered by ToString)
get_failure_reason ==
    LET status == GateCheck IN
    IF status \in {PASS, UNKNOWN} THEN None
    ELSE LET g == Val(metrics)
             num(o) == IF IsNone(o) THEN "N/A" ELSE ToString(Val(o))
         IN Some(CASE status = FAIL_FPR -> <<"FPR (", num(g.fpr), ") exceeds target">>
                   [] status = FAIL_COVERAGE -> <<"Coverage (", num(g.coverage_at_fpr), ") below target">>
                   [] status = FAIL_CALIBRATION -> <<"Calibration (", num(g.calibration_score), ") below threshold">>
                   [] OTHER -> <<"Lead time coefficient of variation too high">>)

\* ------------------------------------------------------------------ EmergencyGate

\* an emergency gate that never reports active
EmergencyIsActive_Never == FALSE

\* EmergencyGate.is_active
EmergencyIsActive == emergency_active

\* EmergencyGate.get_reason
EmergencyGetReason == emergency_reason

\* ------------------------------------------------------------------ EmptinessWindow

\* EmptinessWindow.is_active
is_active == emp_state = EMPTINESS

\* check_allowed blocking the two named levels only, so that UNKNOWN passes
check_allowed_NamedLevels(omega_level) ==
    IF emp_state = NORMAL THEN TRUE ELSE omega_level \notin {OMEGA_1, OMEGA_2}

\* check_allowed blocking every level during Emptiness
check_allowed_BlockAll(omega_level) == emp_state = NORMAL

\* EmptinessWindow.check_allowed
check_allowed(omega_level) ==
    IF emp_state = NORMAL THEN TRUE ELSE omega_level = OMEGA_0

\* EmptinessWindow.record_blocked_call: the buffer afterwards
record_blocked_call(tool_call) ==
    IF emp_state = EMPTINESS THEN Append(blocked_calls, tool_call) ELSE blocked_calls

\* ------------------------------------------------------------------ PolicyEngine

PolicyDecision(decision, omega_level, gate_status, rationale) ==
    [decision |-> decision, omega_level |-> omega_level,
     gate_status |-> gate_status, rationale |-> rationale]

\* an approval that still counts at the instant it expires
ApprovalValidIn_Inclusive(approvals, clock, tool_id) ==
    tool_id \in DOMAIN approvals /\ clock <= approvals[tool_id]

\* The approval of the tool is present and time.time() < expiry
ApprovalValidIn(approvals, clock, tool_id) ==
    tool_id \in DOMAIN approvals /\ clock < approvals[tool_id]

\* a grant list that covers every action of a tool it names
GrantCovers_AnyAction(tool_call) == tool_call.tool_id \in DOMAIN grants

\* a grant list without the '*' wildcard
GrantCovers_NoWildcard(tool_call) ==
    /\ tool_call.tool_id \in DOMAIN grants
    /\ tool_call.action \in grants[tool_call.tool_id]

\* The grant list covers the call
GrantCovers(tool_call) ==
    /\ tool_call.tool_id \in DOMAIN grants
    /\ ("*" \in grants[tool_call.tool_id] \/ tool_call.action \in grants[tool_call.tool_id])

\* PolicyEngine.evaluate: the decision it returns, given the blocklist, the approvals
\* and the clock
PolicyEvaluateIn(blocked, approvals, clock, tool_call, manifest, gate_status) ==
    IF IsNone(manifest)
    THEN PolicyDecision(DENY, UNKNOWN, gate_status, <<"Tool not registered (no manifest)">>)
    ELSE LET omega == Val(manifest) IN
    IF tool_call.tool_id \in blocked
    THEN PolicyDecision(DENY, omega, gate_status,
                        <<"Tool '", tool_call.tool_id, "' is blocked by policy">>)
    ELSE IF omega = OMEGA_0
    THEN PolicyDecision(ALLOW, omega, gate_status, <<"O0 (safe) - allowed by default">>)
    ELSE IF omega = OMEGA_1
    THEN IF gate_status \in {PASS, UNKNOWN}
         THEN PolicyDecision(ALLOW, omega, gate_status, <<"O1 (medium risk) - allowed with audit">>)
         ELSE PolicyDecision(DENY, omega, gate_status, <<"O1 blocked: gate failed (", gate_status, ")">>)
    ELSE IF omega = OMEGA_2
    THEN IF ApprovalValidIn(approvals, clock, tool_call.tool_id)
         THEN PolicyDecision(ALLOW, omega, gate_status, <<"O2 - explicitly approved (time-bounded)">>)
         ELSE IF GrantCovers(tool_call)
         THEN PolicyDecision(ALLOW, omega, gate_status, <<"O2 - granted by policy">>)
         ELSE IF default_omega2_deny
         THEN PolicyDecision(DENY, omega, gate_status,
                             <<"O2 (high risk) - denied by default, requires approval">>)
         ELSE PolicyDecision(REVIEW, omega, gate_status, <<"O2 (high risk) - requires human review">>)
    ELSE PolicyDecision(DENY, omega, gate_status, <<"Unknown O level - denied for safety">>)

\* an evaluation that treats an UNKNOWN level as Omega2
PolicyEvaluate_UnknownAsOmega2(tool_call, manifest, gate_status) ==
    PolicyEvaluateIn(blocked_tools, omega2_approvals, now, tool_call,
                     IF manifest = Some(UNKNOWN) THEN Some(OMEGA_2) ELSE manifest, gate_status)

\* an evaluation that looks at the audit log: the call audited last is denied when it
\* is made again
PolicyEvaluate_HistoryDependent(tool_call, manifest, gate_status) ==
    IF entries # <<>> /\ entries[Len(entries)].tool_call = tool_call
    THEN PolicyDecision(DENY, IF IsNone(manifest) THEN UNKNOWN ELSE Val(manifest), gate_status,
                        <<"repeated call">>)
    ELSE PolicyEvaluateIn(blocked_tools, omega2_approvals, now, tool_call, manifest, gate_status)

\* self.policy.evaluate(tool_call, manifest, gate_status)
PolicyEvaluate(tool_call, manifest, gate_status) ==
    PolicyEvaluateIn(blocked_tools, omega2_approvals, now, tool_call, manifest, gate_status)

\* PolicyEngine.evaluate: _omega2_approvals afterwards (an expired approval of an
\* Omega2 tool that is not blocked is deleted when the evaluation reaches it)
PolicyEvaluateApprovals(tool_call, manifest) ==
    IF /\ ~IsNone(manifest)
       /\ tool_call.tool_id \notin blocked_tools
       /\ Val(manifest) = OMEGA_2
       /\ tool_call.tool_id \in DOMAIN omega2_approvals
       /\ ~ApprovalValidIn(omega2_approvals, now, tool_call.tool_id)
    THEN DictDel(omega2_approvals, tool_call.tool_id)
    ELSE omega2_approvals

\* ------------------------------------------------------------------ AuditLogger

\* an audit entry that never says executed
AuditEntry_NeverExecuted(tool_call, manifest, policy_decision, executed, result, error) ==
    [tool_call |-> tool_call, manifest |-> manifest, policy_decision |-> policy_decision,
     executed |-> FALSE, result |-> result, error |-> error]

AuditEntry(tool_call, manifest, policy_decision, executed, result, error) ==
    [tool_call |-> tool_call, manifest |-> manifest, policy_decision |-> policy_decision,
     executed |-> executed, result |-> result, error |-> error]

\* AuditLogger.log with the in-memory log: _entries afterwards
AuditLog(log, entry) == Append(log, entry)

\* ------------------------------------------------------------------ FitSecRuntime.execute

\* What an executor (or a tool of the user registry) does when it is invoked.
Behaviours == { [kind |-> "return", value |-> "ok"], [kind |-> "raise", value |-> "boom"] }

\* What one execute call does: the audit entries it logs, in order; the failure it
\* raises ("" when it returns) with its message; the value it returns; whether the
\* executor was invoked; the emptiness buffer and the approvals afterwards.
Outcome(logged, raised, message, result, invoked, buffer, approvals) ==
    [logged |-> logged, raised |-> raised, message |-> message, result |-> result,
     invoked |-> invoked, buffer |-> buffer, approvals |-> approvals]

DRY_RUN_MARKER == "{dry_run: True, would_execute: True}"

\* Step 1 raising before it logs
StepNotRegistered_NoLog(tool_call) ==
    Outcome(<<>>, "ToolNotRegisteredError", <<"Tool '", tool_call.tool_id, "' not registered">>,
            None, FALSE, blocked_calls, omega2_approvals)

\* Step 1: manifest is None
StepNotRegistered(tool_call) ==
    Outcome(<<AuditEntry(tool_call, None,
                         PolicyDecision(DENY, UNKNOWN, UNKNOWN, <<"Tool not registered">>),
                         FALSE, None, Some("ToolNotRegisteredError"))>>,
            "ToolNotRegisteredError", <<"Tool '", tool_call.tool_id, "' not registered">>,
            None, FALSE, blocked_calls, omega2_approvals)

\* Step 2: the Emptiness Window blocks the call
StepEmptiness(tool_call, omega) ==
    Outcome(<<AuditEntry(tool_call, Some(omega),
                         PolicyDecision(DENY, omega, UNKNOWN, <<"Blocked by Emptiness Window">>),
                         FALSE, None, Some("EmptinessActiveError"))>>,
            "EmptinessActiveError", <<"Action blocked: Emptiness Window active (O", OmegaValue(omega), ")">>,
            None, FALSE, record_blocked_call(tool_call), omega2_approvals)

\* Step 3: the emergency gate blocks the call
StepEmergency(tool_call, omega) ==
    Outcome(<<AuditEntry(tool_call, Some(omega),
                         PolicyDecision(DENY, omega, UNKNOWN,
                                        <<"Emergency gate active: ", EmergencyGetReason>>),
                         FALSE, None, Some("EmergencyGateActive"))>>,
            "GateFailedError", <<"Emergency gate is active">>,
            None, FALSE, blocked_calls, omega2_approvals)

\* Step 4: the monitorability gate fails in strict mode
StepGate(tool_call, omega, gate_status) ==
    Outcome(<<AuditEntry(tool_call, Some(omega),
                         PolicyDecision(DENY, omega, gate_status,
                                        <<"Monitorability gate failed: ", gate_status>>),
                         FALSE, None, Some("GateFailedError"))>>,
            "GateFailedError",
            IF IsNone(get_failure_reason) THEN <<gate_status>> ELSE Val(get_failure_reason),
            None, FALSE, blocked_calls, omega2_approvals)

\* an except block that logs the fault without its message
ExecutorError_Dropped(e) == None

\* error=str(e): the audit entry's error for an executor that raised e
ExecutorError(e) == Some(e)

\* steps 5 to 7 with the executor looked up before the dry-run shortcut
StepPolicy_ExecutorBeforeDryRun(tool_call, dry_run, behaviour, omega, gate_status) ==
    LET decision == PolicyEvaluate(tool_call, Some(omega), gate_status)
        approvals == PolicyEvaluateApprovals(tool_call, Some(omega))
        log(executed, result, error) ==
            <<AuditEntry(tool_call, Some(omega), decision, executed, result, error)>>
    IN  IF decision.decision = DENY
        THEN Outcome(log(FALSE, None, Some("PolicyDeniedError")),
                     "PolicyDeniedError", decision.rationale,
                     None, FALSE, blocked_calls, approvals)
        ELSE IF decision.decision = REVIEW
        THEN Outcome(log(FALSE, None, Some("RequiresReview")),
                     "PolicyDeniedError", <<"Requires human review: ">> \o decision.rationale,
                     None, FALSE, record_blocked_call(tool_call), approvals)
        ELSE IF ~get_executor(tool_call.tool_id)
        THEN Outcome(log(FALSE, None, Some("NoExecutor")),
                     "FitSecError", <<"No executor registered for '", tool_call.tool_id, "'">>,
                     None, FALSE, blocked_calls, approvals)
        ELSE IF dry_run
        THEN Outcome(log(FALSE, Some("[DRY RUN]"), None),
                     "", <<>>, Some(DRY_RUN_MARKER), FALSE, blocked_calls, approvals)
        ELSE IF behaviour.kind = "return"
        THEN Outcome(log(TRUE, Some(behaviour.value), None),
                     "", <<>>, Some(behaviour.value), TRUE, blocked_calls, approvals)
        ELSE Outcome(log(TRUE, None, Some(behaviour.value)),
                     "Exception", <<behaviour.value>>, None, TRUE, blocked_calls, approvals)

\* Steps 5 to 7: policy evaluation, then deny, review, dry run, or execution
StepPolicy(tool_call, dry_run, behaviour, omega, gate_status) ==
    LET decision == PolicyEvaluate(tool_call, Some(omega), gate_status)
        approvals == PolicyEvaluateApprovals(tool_call, Some(omega))
        log(executed, result, error) ==
            <<AuditEntry(tool_call, Some(omega), decision, executed, result, error)>>
    IN  IF decision.decision = DENY
        THEN Outcome(log(FALSE, None, Some("PolicyDeniedError")),
                     "PolicyDeniedError", decision.rationale,
                     None, FALSE, blocked_calls, approvals)
        ELSE IF decision.decision = REVIEW
        THEN Outcome(log(FALSE, None, Some("RequiresReview")),
                     "PolicyDeniedError", <<"Requires human review: ">> \o decision.rationale,
                     None, FALSE, record_blocked_call(tool_call), approvals)
        ELSE IF dry_run
        THEN Outcome(log(FALSE, Some("[DRY RUN]"), None),
                     "", <<>>, Some(DRY_RUN_MARKER), FALSE, blocked_calls, approvals)
        ELSE IF ~get_executor(tool_call.tool_id)
        THEN Outcome(log(FALSE, None, Some("NoExecutor")),
                     "FitSecError", <<"No executor registered for '", tool_call.tool_id, "'">>,
                     None, FALSE, blocked_calls, approvals)
        ELSE IF behaviour.kind = "return"
        THEN Outcome(log(TRUE, Some(behaviour.value), None),
                     "", <<>>, Some(behaviour.value), TRUE, blocked_calls, approvals)
        ELSE Outcome(log(TRUE, None, ExecutorError(behaviour.value)),
                     "Exception", <<behaviour.value>>, None, TRUE, blocked_calls, approvals)

\* a gate step that looks at Omega2 only
GateApplies_Omega2Only(omega) == omega = OMEGA_2

\* Step 4 applies to Omega1 and Omega2
GateApplies(omega) == omega \in {OMEGA_1, OMEGA_2}

\* an execute that asks the emergency gate before the Emptiness Window
ExecuteOutcome_EmergencyFirst(tool_call, dry_run, behaviour) ==
    LET manifest == get_manifest(tool_call.tool_id) IN
    IF IsNone(manifest) THEN StepNotRegistered(tool_call)
    ELSE LET omega == Val(manifest) IN
    IF EmergencyIsActive /\ omega # OMEGA_0 THEN StepEmergency(tool_call, omega)
    ELSE IF ~check_allowed(omega) THEN StepEmptiness(tool_call, omega)
    ELSE LET gate_status == IF GateApplies(omega) THEN GateCheck ELSE PASS IN
    IF /\ GateApplies(omega)
       /\ gate_status \notin {PASS, UNKNOWN}
       /\ strict_mode
    THEN StepGate(tool_call, omega, gate_status)
    ELSE StepPolicy(tool_call, dry_run, behaviour, omega, gate_status)

\* an execute whose gate step does not look at strict_mode
ExecuteOutcome_AlwaysStrict(tool_call, dry_run, behaviour) ==
    LET manifest == get_manifest(tool_call.tool_id) IN
    IF IsNone(manifest) THEN StepNotRegistered(tool_call)
    ELSE LET omega == Val(manifest) IN
    IF ~check_allowed(omega) THEN StepEmptiness(tool_call, omega)
    ELSE IF EmergencyIsActive /\ omega # OMEGA_0 THEN StepEmergency(tool_call, omega)
    ELSE LET gate_status == IF GateApplies(omega) THEN GateCheck ELSE PASS IN
    IF /\ GateApplies(omega)
       /\ gate_status \notin {PASS, UNKNOWN}
    THEN StepGate(tool_call, omega, gate_status)
    ELSE StepPolicy(tool_call, dry_run, behaviour, omega, gate_status)

\* FitSecRuntime.execute(tool_call, dry_run)
ExecuteOutcome(tool_call, dry_run, behaviour) ==
    LET manifest == get_manifest(tool_call.tool_id) IN
    IF IsNone(manifest) THEN StepNotRegistered(tool_call)
    ELSE LET omega == Val(manifest) IN
    IF ~check_allowed(omega) THEN StepEmptiness(tool_call, omega)
    ELSE IF EmergencyIsActive /\ omega # OMEGA_0 THEN StepEmergency(tool_call, omega)
    ELSE LET gate_status == IF GateApplies(omega) THEN GateCheck ELSE PASS IN
    IF /\ GateApplies(omega)
       /\ gate_status \notin {PASS, UNKNOWN}
       /\ strict_mode
    THEN StepGate(tool_call, omega, gate_status)
    ELSE StepPolicy(tool_call, dry_run, behaviour, omega, gate_status)

SINK_ERROR == "OSError"

\* AuditLogger.log under a failing file write: the entry is appended in memory, then
\* _append_to_file raises. Outside the try block of execute the OSError replaces the
\* outcome of the call; when the success log inside the try block raises, the except
\* branch logs the call again with the OSError as its error, and that log raises too.
AuditSinkOutcome(out) ==
    IF ~log_to_file \/ sink_up \/ out.logged = <<>>
    THEN out
    ELSE LET first == out.logged[1] IN
         [out EXCEPT !.raised = SINK_ERROR,
                     !.message = <<SINK_ERROR>>,
                     !.result = None,
                     !.logged = IF first.executed /\ IsNone(first.error)
                                THEN <<first, [first EXCEPT !.result = None,
                                                            !.error = Some(SINK_ERROR)]>>
                                ELSE <<first>>]

\* AuditLogger._append_to_file for each log call of one execute: the file afterwards
AppendToFile(file, logged) ==
    IF log_to_file /\ sink_up THEN file \o logged ELSE file

RECURSIVE AuditLogAll(_, _)
\* every self.audit.log call of one execute, in order
AuditLogAll(log, logged) ==
    IF logged = <<>> THEN log
    ELSE AuditLogAll(AuditLog(log, Head(logged)), Tail(logged))

Last(api, tool_call, dry_run, out) ==
    [api |-> api, call |-> tool_call, dry_run |-> dry_run, raised |-> out.raised,
     message |-> out.message, result |-> out.result, invoked |-> out.invoked,
     pruned |-> out.approvals # omega2_approvals, packet |-> None]

Execute(tool_call, dry_run, behaviour) ==
    \E out \in {AuditSinkOutcome(ExecuteOutcome(tool_call, dry_run, behaviour))} :
    /\ ncalls' = ncalls + 1
    /\ entries' = AuditLogAll(entries, out.logged)
    /\ durable' = AppendToFile(durable, out.logged)
    /\ blocked_calls' = out.buffer
    /\ omega2_approvals' = out.approvals
    /\ last' = Last("runtime", tool_call, dry_run, out)
    /\ UNCHANGED <<config_vars, async_vars, log_to_file, sink_up, blocked_tools, registry_vars, metrics, emergency_vars,
                   emp_state, activated_at, activation_reason, review_packets, now>>

\* ------------------------------------------------------------------ SecureToolRegistry.execute

\* The user registry's execute (MockToolRegistry.execute): a tool that is not in the
\* registry gives an error string; a tool that is runs, and returns or raises.
RegistryExecute(name, behaviour) ==
    IF name \notin facade_tools
    THEN [kind |-> "return", value |-> "Error: Tool not found", invoked |-> FALSE]
    ELSE [kind |-> behaviour.kind, value |-> behaviour.value, invoked |-> TRUE]

\* a Deny test that compares the PolicyDecision itself with Decision.DENY
FacadeDenied_Never(decision) == FALSE

\* SecureToolRegistry.execute: decision.decision == Decision.DENY
FacadeDenied(decision) == decision.decision = DENY

\* SecureToolRegistry.execute up to the policy check: whether the call is blocked
\* and with which failure, or the decision it goes on with
FacadeChecks(call) ==
    LET name == call.tool_id
        manifest == get_manifest(name)
    IN
    IF is_active /\ ~IsNone(manifest) /\ ~check_allowed(Val(manifest))
    THEN [blocked |-> TRUE, decision |-> None,
          out |-> Outcome(<<>>, "EmptinessActiveError",
                          <<"Emptiness Window active: ", name, " (O",
                            OmegaValue(Val(manifest)), ") blocked">>,
                          None, FALSE, record_blocked_call(call), omega2_approvals)]
    ELSE LET gate_status == IF ~IsNone(manifest) /\ Val(manifest) = OMEGA_2
                            THEN GateCheck ELSE PASS IN
    IF gate_status \notin {PASS, UNKNOWN}
    THEN [blocked |-> TRUE, decision |-> None,
          out |-> Outcome(<<>>, "GateFailedError",
                          <<"Monitorability Gate failed: ">> \o Val(get_failure_reason),
                          None, FALSE, blocked_calls, omega2_approvals)]
    ELSE LET decision == PolicyEvaluate(call, manifest, gate_status)
             approvals == PolicyEvaluateApprovals(call, manifest)
         IN
    IF FacadeDenied(decision)
    THEN [blocked |-> TRUE, decision |-> Some(decision),
          out |-> Outcome(<<>>, "PolicyDeniedError", decision.rationale,
                          None, FALSE, blocked_calls, approvals)]
    ELSE [blocked |-> FALSE, decision |-> Some(decision),
          out |-> Outcome(<<>>, "", <<>>, None, FALSE, blocked_calls, approvals)]

\* SecureToolRegistry.execute after the await: the registry's result r is audited and
\* handed on
FacadeAudit(call, manifest, decision, r, approvals) ==
    IF r.kind = "return"
    THEN Outcome(<<AuditEntry(call, manifest, decision, TRUE, Some(r.value), None)>>,
                 "", <<>>, Some(r.value), r.invoked, blocked_calls, approvals)
    ELSE Outcome(<<AuditEntry(call, manifest, decision, TRUE, None, Some(r.value))>>,
                 "Exception", <<r.value>>, None, r.invoked, blocked_calls, approvals)

\* SecureToolRegistry.execute for one call, run without interruption
FacadeOutcomeOf(call, behaviour) ==
    LET chk == FacadeChecks(call) IN
    IF chk.blocked THEN chk.out
    ELSE FacadeAudit(call, get_manifest(call.tool_id), Val(chk.decision),
                     RegistryExecute(call.tool_id, behaviour), chk.out.approvals)

\* SecureToolRegistry.execute(name, params)
FacadeOutcome(name, behaviour) == FacadeOutcomeOf(ToolCall(name, "execute"), behaviour)

FacadeExecute(name, behaviour) ==
    \E out \in {AuditSinkOutcome(FacadeOutcome(name, behaviour))} :
    /\ ncalls' = ncalls + 1
    /\ entries' = AuditLogAll(entries, out.logged)
    /\ durable' = AppendToFile(durable, out.logged)
    /\ blocked_calls' = out.buffer
    /\ omega2_approvals' = out.approvals
    /\ last' = Last("facade", ToolCall(name, "execute"), FALSE, out)
    /\ UNCHANGED <<config_vars, async_vars, log_to_file, sink_up, blocked_tools, registry_vars, metrics, emergency_vars,
                   emp_state, activated_at, activation_reason, review_packets, now>>

\* ------------------------------------------------------------------ concurrent facade calls

\* params of the calls made concurrently
Params == {"{path: a}", "{path: b}"}

\* A task enters SecureToolRegistry.execute(name, params) and runs to its first
\* suspension: the checks are made without suspending; a blocked call fails at once,
\* a call to a name the user registry does not hold gets the registry's error string
\* and is audited at once, and any other call is suspended in the tool's execute.
FacadeStart(name, params) ==
    LET call == ToolCallArgs(name, "execute", params)
        chk == FacadeChecks(call)
        now_out == IF chk.blocked THEN chk.out
                   ELSE AuditSinkOutcome(FacadeOutcomeOf(call, [kind |-> "return", value |-> "ok"]))
    IN
    /\ Len(arrivals) < MaxTasks
    /\ arrivals' = Append(arrivals, call)
    /\ ncalls' = ncalls + 1
    /\ blocked_calls' = chk.out.buffer
    /\ omega2_approvals' = chk.out.approvals
    /\ IF ~chk.blocked /\ name \in facade_tools
       THEN /\ inflight' = inflight \cup {[seq |-> Len(arrivals) + 1, call |-> call,
                                            manifest |-> get_manifest(name),
                                            decision |-> Val(chk.decision)]}
            /\ entries' = entries
            /\ durable' = durable
            /\ last' = [NoCall EXCEPT !.api = "facade_start", !.call = call,
                                      !.invoked = TRUE]
       ELSE /\ inflight' = inflight
            /\ entries' = AuditLogAll(entries, now_out.logged)
            /\ durable' = AppendToFile(durable, now_out.logged)
            /\ last' = Last("facade", call, FALSE, now_out)
    /\ UNCHANGED <<config_vars, blocked_tools, registry_vars, metrics, emergency_vars,
                   emp_state, activated_at, activation_reason, review_packets, now,
                   log_to_file, sink_up>>

\* The tool of a suspended task returns or raises: the task resumes, audits the
\* outcome and hands it to its caller.
FacadeFinish(task, behaviour) ==
    \E out \in {AuditSinkOutcome(FacadeAudit(task.call, task.manifest, task.decision,
                                              [kind |-> behaviour.kind,
                                               value |-> behaviour.value,
                                               invoked |-> TRUE], omega2_approvals))} :
    /\ task \in inflight
    /\ inflight' = inflight \ {task}
    /\ entries' = AuditLogAll(entries, out.logged)
    /\ durable' = AppendToFile(durable, out.logged)
    /\ last' = Last("facade_finish", task.call, FALSE, out)
    /\ UNCHANGED <<config_vars, arrivals, log_to_file, sink_up, policy_vars, registry_vars, metrics,
                   emergency_vars, emptiness_vars, now, ncalls>>

\* The task of a suspended call is cancelled: asyncio.CancelledError is raised at the
\* await. Where CancelledError derives from BaseException (Python 3.8 and later) no
\* except clause of execute catches it and the task ends without an audit entry; where
\* it derives from Exception (Python 3.7) the last clause logs it with error=str(e),
\* the empty string, and re-raises. `caught` is which of the two the interpreter does.
FacadeCancel(task, caught) ==
    \E out \in {IF caught
                THEN AuditSinkOutcome(
                       [FacadeAudit(task.call, task.manifest, task.decision,
                                    [kind |-> "raise", value |-> "", invoked |-> TRUE],
                                    omega2_approvals)
                        EXCEPT !.raised = "CancelledError"])
                ELSE Outcome(<<>>, "CancelledError", <<"">>, None, TRUE, blocked_calls,
                             omega2_approvals)} :
    /\ task \in inflight
    /\ inflight' = inflight \ {task}
    /\ entries' = AuditLogAll(entries, out.logged)
    /\ durable' = AppendToFile(durable, out.logged)
    /\ last' = Last("facade_cancel", task.call, FALSE, out)
    /\ UNCHANGED <<config_vars, arrivals, log_to_file, sink_up, policy_vars, registry_vars, metrics,
                   emergency_vars, emptiness_vars, now, ncalls>>

\* ------------------------------------------------------------------ registration

\* FitSecRuntime.register_tool(manifest, executor) / ToolRegistry.register
RegisterTool(tool_id, omega_level, has_executor) ==
    /\ tools' = DictSet(tools, tool_id, omega_level)
    /\ executors' = IF has_executor THEN executors \cup {tool_id} ELSE executors
    /\ UNCHANGED <<config_vars, async_vars, sink_vars, policy_vars, facade_tools, metrics, emergency_vars,
                   emptiness_vars, entries, now, ncalls>>
    /\ last' = NoCall

\* SecureToolRegistry.register(tool, omega_level)
FacadeRegister(name, omega_level) ==
    /\ facade_tools' = facade_tools \cup {name}
    /\ tools' = DictSet(tools, name, omega_level)
    /\ executors' = executors \cup {name}
    /\ UNCHANGED <<config_vars, async_vars, sink_vars, policy_vars, metrics, emergency_vars,
                   emptiness_vars, entries, now, ncalls>>
    /\ last' = NoCall

\* SecureToolRegistry.unregister(name): the runtime keeps the manifest
FacadeUnregister(name) ==
    /\ facade_tools' = facade_tools \ {name}
    /\ UNCHANGED <<config_vars, async_vars, sink_vars, policy_vars, tools, executors, metrics, emergency_vars,
                   emptiness_vars, entries, now, ncalls>>
    /\ last' = NoCall

\* ------------------------------------------------------------------ policy operations

\* PolicyEngine.grant_omega2_approval(tool_id, duration_seconds)
GrantOmega2Approval(tool_id, duration_seconds) ==
    /\ omega2_approvals' = DictSet(omega2_approvals, tool_id, now + duration_seconds)
    /\ UNCHANGED <<config_vars, async_vars, sink_vars, blocked_tools, registry_vars, metrics, emergency_vars,
                   emptiness_vars, entries, now, ncalls>>
    /\ last' = NoCall

\* a revoke that marks the approval as expired and keeps it in the table
RevokeOmega2Approval_ExpiresNow(tool_id) ==
    /\ omega2_approvals' = IF tool_id \in DOMAIN omega2_approvals
                           THEN DictSet(omega2_approvals, tool_id, now)
                           ELSE omega2_approvals
    /\ UNCHANGED <<config_vars, async_vars, sink_vars, blocked_tools, registry_vars, metrics, emergency_vars,
                   emptiness_vars, entries, now, ncalls>>
    /\ last' = [NoCall EXCEPT !.api = "revoke", !.pruned = tool_id \in DOMAIN omega2_approvals]

\* PolicyEngine.revoke_omega2_approval(tool_id); `last` notes whether the pop found an
\* approval
RevokeOmega2Approval(tool_id) ==
    /\ omega2_approvals' = DictDel(omega2_approvals, tool_id)
    /\ UNCHANGED <<config_vars, async_vars, sink_vars, blocked_tools, registry_vars, metrics, emergency_vars,
                   emptiness_vars, entries, now, ncalls>>
    /\ last' = [NoCall EXCEPT !.api = "revoke", !.pruned = tool_id \in DOMAIN omega2_approvals]

\* PolicyEngine.block_tool(tool_id)
BlockTool(tool_id) ==
    /\ blocked_tools' = blocked_tools \cup {tool_id}
    /\ UNCHANGED <<config_vars, async_vars, sink_vars, omega2_approvals, registry_vars, metrics, emergency_vars,
                   emptiness_vars, entries, now, ncalls>>
    /\ last' = NoCall

\* an unblock that also drops the tool's approval
UnblockTool_DropsApproval(tool_id) ==
    /\ blocked_tools' = blocked_tools \ {tool_id}
    /\ omega2_approvals' = DictDel(omega2_approvals, tool_id)
    /\ UNCHANGED <<config_vars, async_vars, sink_vars, registry_vars, metrics, emergency_vars,
                   emptiness_vars, entries, now, ncalls>>
    /\ last' = NoCall

\* PolicyEngine.unblock_tool(tool_id)
UnblockTool(tool_id) ==
    /\ blocked_tools' = blocked_tools \ {tool_id}
    /\ UNCHANGED <<config_vars, async_vars, sink_vars, omega2_approvals, registry_vars, metrics, emergency_vars,
                   emptiness_vars, entries, now, ncalls>>
    /\ last' = NoCall

\* ------------------------------------------------------------------ gates

\* MonitorabilityGate.update_metrics(metrics)
UpdateMetrics(m) ==
    /\ metrics' = Some(m)
    /\ UNCHANGED <<config_vars, async_vars, sink_vars, policy_vars, registry_vars, emergency_vars,
                   emptiness_vars, entries, now, ncalls>>
    /\ last' = NoCall

\* an activate that keeps the reason of the first activation
EmergencyStop_KeepsReason(reason) ==
    /\ emergency_active' = TRUE
    /\ emergency_reason' = IF emergency_active THEN emergency_reason ELSE reason
    /\ UNCHANGED <<config_vars, async_vars, sink_vars, policy_vars, registry_vars, metrics,
                   emptiness_vars, entries, now, ncalls>>
    /\ last' = NoCall

\* FitSecRuntime.emergency_stop(reason) / EmergencyGate.activate
EmergencyStop(reason) ==
    /\ emergency_active' = TRUE
    /\ emergency_reason' = reason
    /\ UNCHANGED <<config_vars, async_vars, sink_vars, policy_vars, registry_vars, metrics,
                   emptiness_vars, entries, now, ncalls>>
    /\ last' = NoCall

\* an emergency_clear that also leaves the Emptiness Window
EmergencyClear_ExitsEmptiness ==
    /\ emergency_active' = FALSE
    /\ emergency_reason' = ""
    /\ emp_state' = NORMAL
    /\ UNCHANGED <<config_vars, async_vars, sink_vars, policy_vars, registry_vars, metrics, activated_at,
                   activation_reason, blocked_calls, review_packets, entries, now, ncalls>>
    /\ last' = NoCall

\* FitSecRuntime.emergency_clear() / EmergencyGate.deactivate
EmergencyClear ==
    /\ emergency_active' = FALSE
    /\ emergency_reason' = ""
    /\ UNCHANGED <<config_vars, async_vars, sink_vars, policy_vars, registry_vars, metrics,
                   emptiness_vars, entries, now, ncalls>>
    /\ last' = NoCall

\* ------------------------------------------------------------------ emptiness

\* an activate without its guard: a second activation starts the window again
EnterEmptiness_Unguarded(reason) ==
    /\ emp_state' = EMPTINESS
    /\ activated_at' = Some(now)
    /\ activation_reason' = reason
    /\ blocked_calls' = <<>>
    /\ UNCHANGED <<config_vars, async_vars, sink_vars, policy_vars, registry_vars, metrics, emergency_vars,
                   review_packets, entries, now, ncalls>>
    /\ last' = [NoCall EXCEPT !.api = "enter_emptiness"]

\* FitSecRuntime.enter_emptiness(reason) / EmptinessWindow.activate
EnterEmptiness(reason) ==
    /\ IF emp_state = NORMAL
       THEN /\ emp_state' = EMPTINESS
            /\ activated_at' = Some(now)
            /\ activation_reason' = reason
            /\ blocked_calls' = <<>>
       ELSE UNCHANGED <<emp_state, activated_at, activation_reason, blocked_calls>>
    /\ UNCHANGED <<config_vars, async_vars, sink_vars, policy_vars, registry_vars, metrics, emergency_vars,
                   review_packets, entries, now, ncalls>>
    /\ last' = [NoCall EXCEPT !.api = "enter_emptiness"]

\* a packet that also carries the calls of the packet before it
ReviewPacket_WithEarlier ==
    [timestamp |-> now,
     blocked_calls |-> (IF review_packets = <<>> THEN <<>>
                        ELSE review_packets[Len(review_packets)].blocked_calls)
                       \o blocked_calls]

\* EmptinessWindow._generate_review_packet: the packet
ReviewPacket == [timestamp |-> now, blocked_calls |-> blocked_calls]

\* EmptinessWindow.deactivate(require_review): the value it returns
deactivate_returns(require_review) ==
    IF emp_state = EMPTINESS /\ require_review /\ blocked_calls # <<>>
    THEN Some(ReviewPacket)
    ELSE None

\* a deactivate that makes a packet whenever review is required
Deactivate_AlwaysPacket(require_review) ==
    /\ IF emp_state = EMPTINESS
       THEN /\ review_packets' = IF require_review
                                 THEN Append(review_packets, ReviewPacket)
                                 ELSE review_packets
            /\ emp_state' = NORMAL
            /\ activated_at' = None
            /\ activation_reason' = ""
            /\ blocked_calls' = <<>>
       ELSE UNCHANGED emptiness_vars
    /\ UNCHANGED <<config_vars, async_vars, sink_vars, policy_vars, registry_vars, metrics, emergency_vars,
                   entries, now, ncalls>>
    /\ last' = [NoCall EXCEPT !.api = "deactivate",
                              !.packet = deactivate_returns(require_review)]

\* a deactivate that leaves the buffer as it is
Deactivate_KeepsBuffer(require_review) ==
    /\ IF emp_state = EMPTINESS
       THEN /\ review_packets' = IF require_review /\ blocked_calls # <<>>
                                 THEN Append(review_packets, ReviewPacket)
                                 ELSE review_packets
            /\ emp_state' = NORMAL
            /\ activated_at' = None
            /\ activation_reason' = ""
            /\ UNCHANGED blocked_calls
       ELSE UNCHANGED emptiness_vars
    /\ UNCHANGED <<config_vars, async_vars, sink_vars, policy_vars, registry_vars, metrics, emergency_vars,
                   entries, now, ncalls>>
    /\ last' = [NoCall EXCEPT !.api = "deactivate",
                              !.packet = deactivate_returns(require_review)]

\* EmptinessWindow.deactivate(require_review)
Deactivate(require_review) ==
    /\ IF emp_state = EMPTINESS
       THEN /\ review_packets' = IF require_review /\ blocked_calls # <<>>
                                 THEN Append(review_packets, ReviewPacket)
                                 ELSE review_packets
            /\ emp_state' = NORMAL
            /\ activated_at' = None
            /\ activation_reason' = ""
            /\ blocked_calls' = <<>>
       ELSE UNCHANGED emptiness_vars
    /\ UNCHANGED <<config_vars, async_vars, sink_vars, policy_vars, registry_vars, metrics, emergency_vars,
                   entries, now, ncalls>>
    /\ last' = [NoCall EXCEPT !.api = "deactivate",
                              !.packet = deactivate_returns(require_review)]

\* FitSecRuntime.exit_emptiness() and SecureToolRegistry.exit_emptiness(), which
\* forwards to it: deactivate() with require_review at its default, the packet dropped
\* and None returned
ExitEmptiness ==
    /\ IF emp_state = EMPTINESS
       THEN /\ review_packets' = IF blocked_calls # <<>>
                                 THEN Append(review_packets, ReviewPacket)
                                 ELSE review_packets
            /\ emp_state' = NORMAL
            /\ activated_at' = None
            /\ activation_reason' = ""
            /\ blocked_calls' = <<>>
       ELSE UNCHANGED emptiness_vars
    /\ UNCHANGED <<config_vars, async_vars, sink_vars, policy_vars, registry_vars, metrics, emergency_vars,
                   entries, now, ncalls>>
    /\ last' = [NoCall EXCEPT !.api = "exit_emptiness", !.packet = None]

\* SecureAgentLoop.exit_safety_mode(require_review): it passes require_review to
\* SecureToolRegistry.exit_emptiness, which takes no argument, so the call raises
\* TypeError before anything is deactivated
ExitSafetyMode(require_review) ==
    /\ UNCHANGED <<config_vars, async_vars, sink_vars, policy_vars, registry_vars, metrics, emergency_vars,
                   emptiness_vars, entries, now, ncalls>>
    /\ last' = [NoCall EXCEPT !.api = "exit_safety_mode", !.raised = "TypeError"]

\* ------------------------------------------------------------------ AuditLogger.clear

\* AuditLogger.clear(): self._entries = []
AuditClear ==
    /\ entries' = <<>>
    /\ UNCHANGED <<config_vars, async_vars, sink_vars, policy_vars, registry_vars, metrics,
                   emergency_vars, emptiness_vars, now, ncalls>>
    /\ last' = [NoCall EXCEPT !.api = "audit_clear"]

\* ------------------------------------------------------------------ audit file

\* The audit file stops accepting writes (disk full, permissions, path removed)
SinkGoesDown ==
    /\ log_to_file /\ sink_up
    /\ sink_up' = FALSE
    /\ UNCHANGED <<config_vars, async_vars, log_to_file, durable, policy_vars,
                   registry_vars, metrics, emergency_vars, emptiness_vars, entries,
                   now, ncalls>>
    /\ last' = NoCall

\* The audit file accepts writes again
SinkComesUp ==
    /\ log_to_file /\ ~sink_up
    /\ sink_up' = TRUE
    /\ UNCHANGED <<config_vars, async_vars, log_to_file, durable, policy_vars,
                   registry_vars, metrics, emergency_vars, emptiness_vars, entries,
                   now, ncalls>>
    /\ last' = NoCall

\* ------------------------------------------------------------------ time

\* wall-clock time passes
Tick ==
    /\ now < MaxClock
    /\ now' = now + 1
    /\ UNCHANGED <<config_vars, async_vars, sink_vars, policy_vars, registry_vars, metrics, emergency_vars,
                   emptiness_vars, entries, ncalls>>
    /\ last' = NoCall

\* ------------------------------------------------------------------ specification

\* a run goes on until it has made MaxCalls execute calls
Running == ncalls < MaxCalls

\* Every operation of the runtime and of the facade, at one clock value.
Next ==
    \/ \E c \in Calls, d \in BOOLEAN, b \in Behaviours : Running /\ Execute(c, d, b)
    \/ \E t \in CallIds, b \in Behaviours : Running /\ FacadeExecute(t, b)
    \/ \E t \in ToolIds, o \in OmegaLevel, e \in BOOLEAN : Running /\ RegisterTool(t, o, e)
    \/ \E t \in ToolIds, o \in OmegaLevel : Running /\ FacadeRegister(t, o)
    \/ \E t \in ToolIds : Running /\ FacadeUnregister(t)
    \/ \E t \in ToolIds, d \in Durations : Running /\ GrantOmega2Approval(t, d)
    \/ \E t \in ToolIds : Running /\ RevokeOmega2Approval(t)
    \/ \E t \in ToolIds : Running /\ BlockTool(t)
    \/ \E t \in ToolIds : Running /\ UnblockTool(t)
    \/ \E m \in MetricSamples : Running /\ UpdateMetrics(m)
    \/ \E r \in EmergencyReasons : Running /\ EmergencyStop(r)
    \/ Running /\ EmergencyClear
    \/ \E r \in EmptinessReasons : Running /\ EnterEmptiness(r)
    \/ \E q \in BOOLEAN : Running /\ Deactivate(q)

Spec == Init /\ [][Next]_vars

\* The policy engine under passing time: registration, approvals, blocklist and the
\* clock, with both gates and the Emptiness Window left as constructed.
ClockNext ==
    \/ \E c \in Calls, d \in BOOLEAN, b \in Behaviours : Running /\ Execute(c, d, b)
    \/ \E t \in ToolIds, o \in OmegaLevel, e \in BOOLEAN : Running /\ RegisterTool(t, o, e)
    \/ \E t \in ToolIds, d \in Durations : Running /\ GrantOmega2Approval(t, d)
    \/ \E t \in ToolIds : Running /\ RevokeOmega2Approval(t)
    \/ \E t \in ToolIds : Running /\ BlockTool(t)
    \/ \E t \in ToolIds : Running /\ UnblockTool(t)
    \/ Running /\ Tick

ClockSpec == Init /\ [][ClockNext]_vars

\* The whole pipeline under passing time: every condition that can block a call can
\* be set, and approvals can expire.
OrderNext ==
    \/ \E c \in Calls, d \in BOOLEAN, b \in Behaviours : Running /\ Execute(c, d, b)
    \/ \E t \in ToolIds, o \in OmegaLevel, e \in BOOLEAN : Running /\ RegisterTool(t, o, e)
    \/ \E t \in ToolIds, d \in Durations : Running /\ GrantOmega2Approval(t, d)
    \/ \E t \in ToolIds : Running /\ BlockTool(t)
    \/ \E m \in MetricSamples : Running /\ UpdateMetrics(m)
    \/ \E r \in EmergencyReasons : Running /\ EmergencyStop(r)
    \/ \E r \in EmptinessReasons : Running /\ EnterEmptiness(r)
    \/ Running /\ Tick

OrderSpec == Init /\ [][OrderNext]_vars

\* a window goes on until MaxWindowCalls execute calls were made in the run
WindowRunning == ncalls < MaxWindowCalls

\* The Emptiness Window over several calls: calls through the runtime and the facade
\* between activate, deactivate and the exit_emptiness wrappers, and the audit
\* logger's own clear.
WindowNext ==
    \/ \E c \in Calls, b \in Behaviours : WindowRunning /\ Execute(c, FALSE, b)
    \/ \E t \in CallIds, b \in Behaviours : WindowRunning /\ FacadeExecute(t, b)
    \/ \E t \in ToolIds, o \in OmegaLevel, e \in BOOLEAN : RegisterTool(t, o, e)
    \/ \E r \in EmptinessReasons : EnterEmptiness(r)
    \/ \E q \in BOOLEAN : Deactivate(q)
    \/ ExitEmptiness
    \/ \E q \in BOOLEAN : ExitSafetyMode(q)
    \/ AuditClear

\* A runtime constructed without a policy file and with strict_mode off
WindowInit == Init /\ grants = EmptyDict /\ ~strict_mode

WindowSpec == WindowInit /\ [][WindowNext]_vars

\* A runtime constructed without a policy file, with strict_mode off and default deny
AsyncInit == Init /\ grants = EmptyDict /\ ~strict_mode /\ default_omega2_deny

\* Concurrent callers of the facade: tasks start in some order and their tools finish
\* in any order.
AsyncNext ==
    \/ \E t \in ToolIds, o \in OmegaLevel, e \in BOOLEAN : RegisterTool(t, o, e)
    \/ \E t \in ToolIds, o \in OmegaLevel : FacadeRegister(t, o)
    \/ \E t \in CallIds, p \in Params : FacadeStart(t, p)
    \/ \E task \in inflight, b \in Behaviours : FacadeFinish(task, b)

AsyncSpec == AsyncInit /\ [][AsyncNext]_vars

\* Concurrent callers of the facade whose tasks can be cancelled while their tool runs.
CancelNext ==
    \/ AsyncNext
    \/ \E task \in inflight, caught \in BOOLEAN : FacadeCancel(task, caught)

CancelSpec == AsyncInit /\ [][CancelNext]_vars

\* Concurrent callers of the facade, with enter_emptiness, block_tool, grant_approval
\* and revoke_approval called between their suspension points.
InterleaveNext ==
    \/ \E t \in ToolIds, o \in OmegaLevel : FacadeRegister(t, o)
    \/ \E t \in CallIds, p \in Params : FacadeStart(t, p)
    \/ \E task \in inflight, b \in Behaviours : FacadeFinish(task, b)
    \/ \E r \in EmptinessReasons : EnterEmptiness(r)
    \/ \E t \in ToolIds : BlockTool(t)
    \/ \E t \in ToolIds, d \in Durations : GrantOmega2Approval(t, d)
    \/ \E t \in ToolIds : RevokeOmega2Approval(t)

InterleaveSpec == WindowInit /\ [][InterleaveNext]_vars

\* Calls repeated while the audit log, the emptiness buffer and the registrations change
\* around them.
RepeatNext ==
    \/ \E c \in Calls, b \in Behaviours : WindowRunning /\ Execute(c, FALSE, b)
    \/ \E t \in ToolIds, o \in OmegaLevel, e \in BOOLEAN : RegisterTool(t, o, e)
    \/ \E r \in EmptinessReasons : EnterEmptiness(r)
    \/ AuditClear

RepeatSpec == WindowInit /\ [][RepeatNext]_vars

\* The emergency gate declared, declared again and cleared between executes, emptiness
\* transitions and policy changes.
LatchNext ==
    \/ \E c \in Calls, b \in Behaviours : WindowRunning /\ Execute(c, FALSE, b)
    \/ \E t \in ToolIds, o \in OmegaLevel, e \in BOOLEAN : RegisterTool(t, o, e)
    \/ \E r \in LatchReasons : EmergencyStop(r)
    \/ EmergencyClear
    \/ \E r \in EmptinessReasons : EnterEmptiness(r)
    \/ ExitEmptiness
    \/ \E t \in ToolIds : BlockTool(t)

LatchSpec == AsyncInit /\ [][LatchNext]_vars

\* Windows opened and closed one after the other under passing time, with calls blocked
\* in them.
CycleNext ==
    \/ \E c \in Calls, b \in Behaviours : WindowRunning /\ Execute(c, FALSE, b)
    \/ \E t \in ToolIds, o \in OmegaLevel, e \in BOOLEAN : RegisterTool(t, o, e)
    \/ \E r \in CycleReasons : EnterEmptiness(r)
    \/ \E q \in BOOLEAN : Deactivate(q)
    \/ Tick

CycleSpec == AsyncInit /\ [][CycleNext]_vars

\* A runtime constructed without a policy file
GateInit == Init /\ grants = EmptyDict /\ default_omega2_deny

\* The runtime under every metrics snapshot a provider can supply.
GateNext ==
    \/ \E c \in Calls, d \in BOOLEAN, b \in Behaviours : Running /\ Execute(c, d, b)
    \/ \E t \in ToolIds, o \in OmegaLevel, e \in BOOLEAN : Running /\ RegisterTool(t, o, e)
    \/ \E m \in GateSamples : Running /\ UpdateMetrics(m)

GateSpec == GateInit /\ [][GateNext]_vars

\* A runtime constructed with an audit_path and without a policy file, strict_mode off
SinkInit == RuntimeInit(TRUE) /\ grants = EmptyDict /\ ~strict_mode

\* The runtime writing its audit file, which can stop and start accepting writes.
SinkNext ==
    \/ \E c \in Calls, d \in BOOLEAN, b \in Behaviours : WindowRunning /\ Execute(c, d, b)
    \/ \E t \in ToolIds, o \in OmegaLevel, e \in BOOLEAN : RegisterTool(t, o, e)
    \/ \E r \in EmptinessReasons : EnterEmptiness(r)
    \/ SinkGoesDown
    \/ SinkComesUp

SinkSpec == SinkInit /\ [][SinkNext]_vars

\* ------------------------------------------------------------------ properties

\* the audit entry of the call just made
TheEntry == entries[Len(entries)]
RuntimeCall == last.api = "runtime"
FacadeCall == last.api = "facade"
CallRegistered == last.call.tool_id \in DOMAIN tools
CallOmega == tools[last.call.tool_id]
Mentions(rationale, piece) == \E i \in 1..Len(rationale) : rationale[i] = piece

\* C1: every FitSecRuntime.execute call appends exactly one audit entry, for its own
\* call, to the in-memory log and leaves the entries before it as they were,
\* whatever its outcome.
C1_OneEntryPerExecute ==
    [][ (ncalls' = ncalls + 1 /\ last'.api = "runtime")
        => /\ Len(entries') = Len(entries) + 1
           /\ SubSeq(entries', 1, Len(entries)) = entries
           /\ entries'[Len(entries')].tool_call = last'.call ]_vars

\* an executor fault: the call raised the executor's exception and left one entry
C1_Witness ==
    /\ RuntimeCall /\ last.raised = "Exception" /\ last.invoked
    /\ Len(entries) = 1 /\ TheEntry.executed /\ TheEntry.error = Some("boom")

\* C2: while the Emptiness Window is active, FitSecRuntime.execute of a registered
\* tool whose blast radius is not Omega0 does not invoke the executor, raises
\* EmptinessActive, logs a Deny entry whose rationale is the emptiness one, and
\* appends the call to the blocked-call buffer, in every policy, gate and emergency
\* state.
C2_EmptinessDenies ==
    (RuntimeCall /\ is_active /\ CallRegistered /\ CallOmega # OMEGA_0)
    => /\ ~last.invoked
       /\ last.raised = "EmptinessActiveError"
       /\ TheEntry.policy_decision.decision = DENY
       /\ ~TheEntry.executed
       /\ Mentions(TheEntry.policy_decision.rationale, "Blocked by Emptiness Window")
       /\ blocked_calls # <<>>
       /\ blocked_calls[Len(blocked_calls)] = last.call

\* an approved Omega2 call blocked by the window while the emergency is active too
C2_Witness ==
    /\ RuntimeCall /\ is_active /\ CallRegistered /\ CallOmega = OMEGA_2
    /\ emergency_active
    /\ last.call.tool_id \in DOMAIN omega2_approvals
    /\ last.raised = "EmptinessActiveError"
    /\ blocked_calls = <<last.call>>

\* C3 as stated: whenever the emergency gate is active, a call to a registered tool
\* whose blast radius is not Omega0 is denied without invoking the executor and its
\* entry is Deny with a rationale containing the emergency reason, also while the
\* Emptiness Window is active.
C3_AsStated ==
    (RuntimeCall /\ emergency_active /\ CallRegistered /\ CallOmega # OMEGA_0)
    => /\ ~last.invoked
       /\ TheEntry.policy_decision.decision = DENY
       /\ Mentions(TheEntry.policy_decision.rationale, emergency_reason)

\* C3 amended: whenever the emergency gate is active, a call to a registered tool
\* whose blast radius is not Omega0 is denied without invoking the executor and its
\* entry is Deny with executed=false; when the Emptiness Window is not active the
\* failure is GateFailed and the rationale contains the emergency reason; when it
\* is active the emptiness step answers first and the rationale is the emptiness one.
C3_EmergencyDenies ==
    (RuntimeCall /\ emergency_active /\ CallRegistered /\ CallOmega # OMEGA_0)
    => /\ ~last.invoked
       /\ last.raised # ""
       /\ TheEntry.policy_decision.decision = DENY
       /\ ~TheEntry.executed
       /\ ~is_active => /\ last.raised = "GateFailedError"
                        /\ TheEntry.policy_decision.rationale
                             = <<"Emergency gate active: ", emergency_reason>>
                        /\ Mentions(TheEntry.policy_decision.rationale, emergency_reason)
       /\ is_active => /\ last.raised = "EmptinessActiveError"
                       /\ ~Mentions(TheEntry.policy_decision.rationale, emergency_reason)

\* an approved Omega2 call denied by the emergency gate, outside Emptiness
C3_Witness ==
    /\ RuntimeCall /\ emergency_active /\ ~is_active
    /\ CallRegistered /\ CallOmega = OMEGA_2
    /\ last.call.tool_id \in DOMAIN omega2_approvals
    /\ last.raised = "GateFailedError"
    /\ Mentions(TheEntry.policy_decision.rationale, "incident")

\* C4: a registered Omega0 tool that is not blocklisted and has an executor is
\* executed by FitSecRuntime.execute (dry_run left at its default) whether or not
\* emptiness or the emergency is active, the gate fails or strict mode is on; and
\* a Deny for a registered Omega0 tool means the tool is blocklisted.
C4_Omega0Executes ==
    (RuntimeCall /\ CallRegistered /\ CallOmega = OMEGA_0)
    => /\ (last.call.tool_id \notin blocked_tools /\ last.call.tool_id \in executors
           /\ ~last.dry_run)
          => /\ last.invoked
             /\ TheEntry.executed
             /\ TheEntry.policy_decision.decision = ALLOW
             /\ last.raised \in {"", "Exception"}
       /\ TheEntry.policy_decision.decision = DENY => last.call.tool_id \in blocked_tools

\* an Omega0 call executed with emptiness and the emergency active and the gate
\* failing in strict mode
C4_Witness ==
    /\ RuntimeCall /\ CallRegistered /\ CallOmega = OMEGA_0
    /\ is_active /\ emergency_active /\ strict_mode /\ GateCheck \in FailStatus
    /\ last.invoked /\ last.raised = "" /\ last.result = Some("ok")

\* The tool of the call has no approval that is still unexpired
CallHasNoApproval ==
    \/ last.call.tool_id \notin DOMAIN omega2_approvals
    \/ ~(now < omega2_approvals[last.call.tool_id])

\* No grant of the tool names the action of the call or "*"
CallHasNoGrant ==
    \/ last.call.tool_id \notin DOMAIN grants
    \/ /\ "*" \notin grants[last.call.tool_id]
       /\ last.call.action \notin grants[last.call.tool_id]

\* No step before the policy evaluation answers a call to a tool that is not Omega0
NoEarlierStep ==
    /\ ~is_active
    /\ ~emergency_active
    /\ ~(strict_mode /\ GateCheck \in FailStatus)

DENIED_BY_DEFAULT == <<"O2 (high risk) - denied by default, requires approval">>

\* C5 as stated: with default_omega2_deny set, a call to a registered Omega2 tool
\* with neither an unexpired approval nor a covering grant always raises
\* PolicyDenied with the denied-by-default rationale, and its entry is Deny with
\* executed=false.
C5_AsStated ==
    (RuntimeCall /\ CallRegistered /\ CallOmega = OMEGA_2
       /\ CallHasNoApproval /\ CallHasNoGrant /\ default_omega2_deny)
    => /\ ~last.invoked
       /\ last.raised = "PolicyDeniedError"
       /\ TheEntry.policy_decision.rationale = DENIED_BY_DEFAULT
       /\ TheEntry.policy_decision.decision = DENY
       /\ ~TheEntry.executed

\* C5 amended: a registered Omega2 tool with neither an unexpired approval nor a
\* grant covering the call's action (or "*") is never executed by
\* FitSecRuntime.execute: the executor is not invoked, the call fails and the entry
\* has executed=false and is not Allow. With default_omega2_deny set the entry is
\* Deny, and when no earlier step (Emptiness Window, emergency gate, strict gate
\* failure) and no blocklist answers first the failure is PolicyDenied with the
\* denied-by-default rationale. With default_omega2_deny set the facade does not
\* run such a tool either.
C5_Omega2DefaultDeny ==
    /\ (RuntimeCall /\ CallRegistered /\ CallOmega = OMEGA_2
          /\ CallHasNoApproval /\ CallHasNoGrant)
       => /\ ~last.invoked
          /\ last.raised \notin {"", "Exception"}
          /\ ~TheEntry.executed
          /\ TheEntry.policy_decision.decision # ALLOW
          /\ default_omega2_deny => TheEntry.policy_decision.decision = DENY
          /\ (default_omega2_deny /\ NoEarlierStep /\ last.call.tool_id \notin blocked_tools)
             => /\ last.raised = "PolicyDeniedError"
                /\ last.message = DENIED_BY_DEFAULT
                /\ TheEntry.policy_decision.rationale = DENIED_BY_DEFAULT
    /\ (FacadeCall /\ CallRegistered /\ CallOmega = OMEGA_2
          /\ CallHasNoApproval /\ CallHasNoGrant /\ default_omega2_deny)
       => /\ ~last.invoked
          /\ last.raised \notin {"", "Exception"}

\* an Omega2 call for an action its grant does not name, denied by default
C5_Witness ==
    /\ RuntimeCall /\ CallRegistered /\ CallOmega = OMEGA_2
    /\ last.call.tool_id \in executors
    /\ last.call.tool_id \in DOMAIN grants /\ grants[last.call.tool_id] = {"run"}
    /\ last.call.action = "execute"
    /\ CallHasNoApproval /\ default_omega2_deny /\ NoEarlierStep
    /\ last.raised = "PolicyDeniedError"
    /\ TheEntry.policy_decision.rationale = DENIED_BY_DEFAULT

\* An Omega2 call that no blocklist, window, emergency or strict gate failure answers
C6_UnblockedOmega2Call ==
    /\ RuntimeCall /\ CallRegistered /\ CallOmega = OMEGA_2
    /\ last.call.tool_id \notin blocked_tools
    /\ NoEarlierStep

\* C6: grant_omega2_approval(t, D) at clock time t0 sets the expiry t0+D and only a
\* grant sets one; time passing leaves the approvals alone. An otherwise unblocked
\* call to t evaluated strictly before the expiry is allowed as approved; evaluated
\* at the expiry or later the approval is dropped and the decision is the one with
\* no approval at all: Allow only by a matching grant, else Deny under default
\* deny, else Review.
C6_ApprovalUntilExpiry ==
    /\ [](C6_UnblockedOmega2Call =>
            LET t == last.call.tool_id
                d == TheEntry.policy_decision
            IN  /\ (t \in DOMAIN omega2_approvals /\ now < omega2_approvals[t])
                   => /\ d.decision = ALLOW
                      /\ d.rationale = <<"O2 - explicitly approved (time-bounded)">>
                      /\ ~last.pruned
                /\ ~(t \in DOMAIN omega2_approvals /\ now < omega2_approvals[t])
                   => /\ t \notin DOMAIN omega2_approvals
                      /\ d.rationale # <<"O2 - explicitly approved (time-bounded)">>
                      /\ ~CallHasNoGrant => d.decision = ALLOW
                      /\ (CallHasNoGrant /\ default_omega2_deny) => d.decision = DENY
                      /\ (CallHasNoGrant /\ ~default_omega2_deny) => d.decision = REVIEW
                      /\ d.decision # ALLOW => ~last.invoked)
    /\ [][ /\ now' # now => omega2_approvals' = omega2_approvals
           /\ \A t \in ToolIds :
                (/\ t \in DOMAIN omega2_approvals'
                 /\ (t \notin DOMAIN omega2_approvals
                       \/ omega2_approvals'[t] # omega2_approvals[t]))
                => /\ ncalls' = ncalls
                   /\ \E D \in Durations : omega2_approvals'[t] = now + D
           /\ \A t \in ToolIds :
                (ncalls' = ncalls + 1 /\ last'.pruned /\ t \notin DOMAIN omega2_approvals'
                   /\ t \in DOMAIN omega2_approvals)
                => ~(now < omega2_approvals[t]) ]_vars

\* a call evaluated at or after the expiry of its approval: the approval is dropped
\* and the call is denied by default
C6_Witness ==
    /\ C6_UnblockedOmega2Call
    /\ last.pruned /\ now >= 1
    /\ last.call.tool_id \notin DOMAIN omega2_approvals
    /\ CallHasNoGrant /\ default_omega2_deny
    /\ last.raised = "PolicyDeniedError"
    /\ TheEntry.policy_decision.rationale = DENIED_BY_DEFAULT

\* C7: in every state of the audit log, every entry whose decision is Deny has
\* executed=false, whether FitSecRuntime.execute or SecureToolRegistry.execute
\* wrote it.
C7_DenyNeverExecuted ==
    \A i \in 1..Len(entries) :
        entries[i].policy_decision.decision = DENY => ~entries[i].executed

\* a Deny entry of a policy denial in the log, next to the failure it reports
C7_Witness ==
    /\ RuntimeCall /\ CallRegistered
    /\ last.call.tool_id \in executors
    /\ last.raised = "PolicyDeniedError"
    /\ Len(entries) = 1
    /\ entries[1].policy_decision.decision = DENY
    /\ ~entries[1].executed
    /\ entries[1].tool_call = last.call

\* The policy evaluation is the step that answers the runtime call
PolicyAnswers ==
    /\ RuntimeCall /\ CallRegistered
    /\ CallOmega = OMEGA_0 \/ (~is_active /\ ~emergency_active)
    /\ ~(CallOmega \in {OMEGA_1, OMEGA_2} /\ strict_mode /\ GateCheck \in FailStatus)

\* C8: a tool on the blocklist is never allowed, for every blast radius, gate status,
\* grant and unexpired approval: the evaluation denies it, FitSecRuntime.execute and
\* the facade do not invoke it, the runtime's entry is Deny, and when the policy step
\* answers the rationale is the blocklist one. block_tool and unblock_tool change
\* the blocklist only, and after unblock_tool(t) every call to t gets the decision
\* the evaluation gives with t off the blocklist.
C8_BlocklistFirst ==
    /\ [](/\ \A c \in Calls, omega \in OmegaLevel, g \in GateStatus :
               c.tool_id \in blocked_tools
               => PolicyEvaluate(c, Some(omega), g).decision = DENY
          /\ ((RuntimeCall \/ FacadeCall) /\ last.call.tool_id \in blocked_tools)
             => /\ ~last.invoked
                /\ last.raised \notin {"", "Exception"}
                /\ RuntimeCall => /\ TheEntry.policy_decision.decision = DENY
                                  /\ ~TheEntry.executed
                /\ PolicyAnswers
                   => /\ last.raised = "PolicyDeniedError"
                      /\ TheEntry.policy_decision.rationale
                           = <<"Tool '", last.call.tool_id, "' is blocked by policy">>)
    /\ [][ /\ blocked_tools' # blocked_tools
              => /\ omega2_approvals' = omega2_approvals
                 /\ grants' = grants
                 /\ default_omega2_deny' = default_omega2_deny
                 /\ tools' = tools
           /\ \A t \in ToolIds :
                (t \in blocked_tools /\ t \notin blocked_tools')
                => \A c \in Calls, omega \in OmegaLevel, g \in GateStatus :
                     c.tool_id = t
                     => PolicyEvaluate(c, Some(omega), g)'
                          = PolicyEvaluateIn(blocked_tools \ {t}, omega2_approvals, now,
                                             c, Some(omega), g) ]_vars

\* a blocklisted Omega2 tool with an unexpired approval and a "*" grant, denied by
\* the blocklist
C8_Witness ==
    /\ PolicyAnswers /\ CallOmega = OMEGA_2
    /\ last.call.tool_id \in blocked_tools
    /\ last.call.tool_id \in executors
    /\ ~CallHasNoApproval
    /\ last.call.tool_id \in DOMAIN grants /\ "*" \in grants[last.call.tool_id]
    /\ last.raised = "PolicyDeniedError"
    /\ Mentions(TheEntry.policy_decision.rationale, "' is blocked by policy")

\* C9: a tool registered with blast radius UNKNOWN is never executed by
\* FitSecRuntime.execute: for every gate status the evaluation denies it, and with
\* any approval, grant, strict-mode setting, emptiness and emergency state the
\* executor is not invoked, the call fails and the entry is Deny with
\* executed=false; when the policy step answers for a tool off the blocklist the
\* rationale is the unknown-level one.
C9_UnknownNeverExecuted ==
    /\ \A c \in Calls, g \in GateStatus :
          PolicyEvaluate(c, Some(UNKNOWN), g).decision = DENY
    /\ (RuntimeCall /\ CallRegistered /\ CallOmega = UNKNOWN)
       => /\ ~last.invoked
          /\ last.raised \notin {"", "Exception"}
          /\ TheEntry.policy_decision.decision = DENY
          /\ ~TheEntry.executed
          /\ (PolicyAnswers /\ last.call.tool_id \notin blocked_tools)
             => /\ last.raised = "PolicyDeniedError"
                /\ TheEntry.policy_decision.rationale
                     = <<"Unknown O level - denied for safety">>

\* an UNKNOWN tool with an executor, an unexpired approval and a "*" grant, denied
\* by the policy step
C9_Witness ==
    /\ PolicyAnswers /\ CallOmega = UNKNOWN
    /\ last.call.tool_id \in executors
    /\ last.call.tool_id \notin blocked_tools
    /\ ~CallHasNoApproval
    /\ last.call.tool_id \in DOMAIN grants /\ "*" \in grants[last.call.tool_id]
    /\ last.raised = "PolicyDeniedError"
    /\ TheEntry.policy_decision.rationale = <<"Unknown O level - denied for safety">>

\* A runtime call to a registered Omega1 or Omega2 tool in strict mode while the
\* gate's status is a Fail value
StrictGateFailCall ==
    /\ RuntimeCall /\ CallRegistered /\ CallOmega \in {OMEGA_1, OMEGA_2}
    /\ strict_mode /\ GateCheck \in FailStatus

\* C10 as stated: in strict mode with the gate's status a Fail value, a call to a
\* registered Omega1 or Omega2 tool always raises GateFailed without evaluating
\* policy or invoking the executor, and the entry is Deny carrying that status.
C10_AsStated ==
    StrictGateFailCall
    => /\ last.raised = "GateFailedError"
       /\ ~last.invoked
       /\ ~last.pruned
       /\ TheEntry.policy_decision.decision = DENY
       /\ TheEntry.policy_decision.gate_status = GateCheck

\* C10 amended: in strict mode with the gate's status a Fail value, a call to a
\* registered Omega1 or Omega2 tool is never evaluated by policy and never invokes
\* the executor, approval or grant or not, and its entry is Deny with
\* executed=false. When neither the Emptiness Window nor the emergency gate is
\* active the failure is GateFailed with the gate's failure reason and the entry
\* carries the Fail status; when one of them is active that earlier step answers
\* and the entry carries gate status UNKNOWN.
C10_StrictGateFails ==
    StrictGateFailCall
    => /\ ~last.invoked
       /\ ~last.pruned
       /\ TheEntry.policy_decision.decision = DENY
       /\ ~TheEntry.executed
       /\ last.raised = IF is_active THEN "EmptinessActiveError" ELSE "GateFailedError"
       /\ (~is_active /\ ~emergency_active)
          => /\ TheEntry.policy_decision.gate_status = GateCheck
             /\ TheEntry.policy_decision.rationale
                  = <<"Monitorability gate failed: ", GateCheck>>
             /\ last.message = Val(get_failure_reason)
       /\ (is_active \/ emergency_active)
          => TheEntry.policy_decision.gate_status = UNKNOWN

\* an Omega2 call with an unexpired approval and a "*" grant that the failing gate
\* denies in strict mode
C10_Witness ==
    /\ StrictGateFailCall /\ CallOmega = OMEGA_2
    /\ ~is_active /\ ~emergency_active
    /\ GateCheck = FAIL_LEAD_TIME
    /\ last.call.tool_id \in executors
    /\ last.call.tool_id \notin blocked_tools
    /\ ~CallHasNoApproval
    /\ last.call.tool_id \in DOMAIN grants /\ "*" \in grants[last.call.tool_id]
    /\ last.raised = "GateFailedError"
    /\ TheEntry.policy_decision.gate_status = FAIL_LEAD_TIME

\* The step of the fixed order that answers a runtime call, from the state alone
FirstStep ==
    IF ~CallRegistered THEN "not_registered"
    ELSE IF is_active /\ CallOmega # OMEGA_0 THEN "emptiness"
    ELSE IF emergency_active /\ CallOmega # OMEGA_0 THEN "emergency"
    ELSE IF CallOmega \in {OMEGA_1, OMEGA_2} /\ strict_mode /\ GateCheck \in FailStatus
    THEN "gate"
    ELSE "policy"

\* C11: FitSecRuntime.execute reports the earliest step of the order not-registered,
\* emptiness, emergency, monitorability gate (strict), policy whose condition holds:
\* the failure kind and the entry's rationale are those of that step alone, whatever
\* later conditions hold too, and a step before policy leaves no effect of a later
\* one: one entry, no approval pruned, and the blocked-call buffer grows only in the
\* emptiness step.
C11_EarliestStepAnswers ==
    /\ [](RuntimeCall =>
            LET d == TheEntry.policy_decision IN
            /\ FirstStep = "not_registered"
               => /\ last.raised = "ToolNotRegisteredError"
                  /\ d.rationale = <<"Tool not registered">>
            /\ FirstStep = "emptiness"
               => /\ last.raised = "EmptinessActiveError"
                  /\ d.rationale = <<"Blocked by Emptiness Window">>
                  /\ TheEntry.error = Some("EmptinessActiveError")
            /\ FirstStep = "emergency"
               => /\ last.raised = "GateFailedError"
                  /\ last.message = <<"Emergency gate is active">>
                  /\ d.rationale = <<"Emergency gate active: ", emergency_reason>>
                  /\ TheEntry.error = Some("EmergencyGateActive")
            /\ FirstStep = "gate"
               => /\ last.raised = "GateFailedError"
                  /\ d.rationale = <<"Monitorability gate failed: ", GateCheck>>
                  /\ TheEntry.error = Some("GateFailedError")
            /\ FirstStep # "policy"
               => /\ ~last.invoked
                  /\ ~last.pruned
                  /\ d.decision = DENY
                  /\ ~TheEntry.executed
            /\ FirstStep = "policy"
               => last.raised \notin {"ToolNotRegisteredError", "EmptinessActiveError",
                                      "GateFailedError"})
    /\ [][ (ncalls' = ncalls + 1 /\ last'.api = "runtime")
           => /\ Len(entries') = Len(entries) + 1
              /\ FirstStep' # "policy"
                 => /\ omega2_approvals' = omega2_approvals
                    /\ blocked_calls' = IF FirstStep' = "emptiness"
                                        THEN Append(blocked_calls, last'.call)
                                        ELSE blocked_calls ]_vars

\* an Omega2 call on a blocklisted tool with an expired approval while the window and
\* the emergency are active and the gate fails in strict mode: the emptiness step
\* answers and the expired approval stays
C11_Witness ==
    /\ RuntimeCall /\ CallRegistered /\ CallOmega = OMEGA_2
    /\ is_active /\ emergency_active /\ strict_mode /\ GateCheck \in FailStatus
    /\ last.call.tool_id \in blocked_tools
    /\ last.call.tool_id \in DOMAIN omega2_approvals
    /\ ~(now < omega2_approvals[last.call.tool_id])
    /\ last.raised = "EmptinessActiveError"
    /\ Len(entries) = 1

\* C12: the Emptiness Window is sticky. From Emptiness, every step that is not a
\* deactivate (execute calls that are allowed, blocked or failing, facade calls,
\* emergency_stop and emergency_clear, approval grants and revokes, block and
\* unblock, metric updates, registrations and repeated activate calls) leaves the
\* state Emptiness with its activation time and reason; the one step that leaves
\* Emptiness is a deactivate, and it goes to Normal.
C12_EmptinessSticky ==
    [][ emp_state = EMPTINESS
        => /\ emp_state' # EMPTINESS
              => /\ last'.api \in {"deactivate", "exit_emptiness"}
                 /\ emp_state' = NORMAL
           /\ last'.api \notin {"deactivate", "exit_emptiness"}
              => /\ emp_state' = EMPTINESS
                 /\ activated_at' = activated_at
                 /\ activation_reason' = activation_reason ]_vars

\* an executor fault on an allowed call during the window, with the emergency gate
\* active: the state is still Emptiness
C12_Witness ==
    /\ RuntimeCall /\ last.invoked /\ last.raised = "Exception"
    /\ emp_state = EMPTINESS /\ activated_at # None
    /\ emergency_active

\* C13: a ReviewPacket is created only by a deactivate with require_review true that
\* moves the controller from Emptiness to Normal with a non-empty blocked-call
\* buffer: any step that changes the packet list is such a deactivate (called
\* directly or through exit_emptiness), appends one packet whose blocked_calls are
\* the buffer of that moment, in order, and leaves the earlier packets alone; every
\* packet holds at least one blocked call.
C13_PacketOnlyOnDeactivate ==
    /\ [](\A i \in 1..Len(review_packets) : review_packets[i].blocked_calls # <<>>)
    /\ [][ review_packets' # review_packets
           => /\ Deactivate(TRUE) \/ ExitEmptiness
              /\ emp_state = EMPTINESS /\ emp_state' = NORMAL
              /\ blocked_calls # <<>>
              /\ Len(review_packets') = Len(review_packets) + 1
              /\ SubSeq(review_packets', 1, Len(review_packets)) = review_packets
              /\ review_packets'[Len(review_packets')].blocked_calls = blocked_calls ]_vars

\* a packet holding two different blocked calls, after the window was left
C13_Witness ==
    /\ emp_state = NORMAL
    /\ Len(review_packets) = 1
    /\ Len(review_packets[1].blocked_calls) = 2
    /\ review_packets[1].blocked_calls[1] # review_packets[1].blocked_calls[2]
    /\ last.api = "deactivate" /\ last.packet = Some(review_packets[1])

\* C14 as stated: when calls were blocked during the window, exit_emptiness of the
\* runtime (and of the facade, which forwards to it) returns a ReviewPacket whose
\* blocked_calls are the calls blocked since activation.
C14_AsStated ==
    [][ (last'.api = "exit_emptiness" /\ emp_state = EMPTINESS /\ blocked_calls # <<>>)
        => /\ last'.packet # None
           /\ Val(last'.packet).blocked_calls = blocked_calls ]_vars

\* exit_emptiness has returned None although the deactivate it made created a packet
C14_Witness ==
    /\ last.api = "exit_emptiness" /\ last.packet = None
    /\ emp_state = NORMAL
    /\ review_packets # <<>>
    /\ review_packets[Len(review_packets)].blocked_calls # <<>>

\* C15 as stated: while the emergency gate is active, a call through the facade to a
\* registered tool whose blast radius is not Omega0 does not run the tool.
C15_AsStated ==
    (FacadeCall /\ emergency_active /\ CallRegistered /\ CallOmega # OMEGA_0)
    => ~last.invoked

\* an Omega1 tool run through the facade while the emergency gate is active
C15_Witness ==
    /\ FacadeCall /\ emergency_active /\ CallRegistered /\ CallOmega = OMEGA_1
    /\ last.invoked /\ last.raised = "" /\ last.result = Some("ok")
    /\ TheEntry.executed

\* C16 as stated: every facade call blocked by the Emptiness Window, by the
\* monitorability gate or by a policy Deny appends one audit entry for that call.
C16_AsStated ==
    [][ (ncalls' = ncalls + 1 /\ last'.api = "facade"
           /\ last'.raised \in {"EmptinessActiveError", "GateFailedError", "PolicyDeniedError"})
        => /\ Len(entries') = Len(entries) + 1
           /\ entries'[Len(entries')].tool_call = last'.call ]_vars

\* a facade call denied by policy that left the audit log empty
C16_Witness ==
    /\ FacadeCall /\ CallRegistered
    /\ last.raised = "PolicyDeniedError"
    /\ entries = <<>>

\* C17 as stated: in strict mode with the gate's status a Fail value, the facade does
\* not run a registered Omega1 tool, and reports GateFailed when the Emptiness Window
\* does not answer first.
C17_AsStated ==
    (FacadeCall /\ strict_mode /\ GateCheck \in FailStatus
       /\ CallRegistered /\ CallOmega = OMEGA_1)
    => /\ ~last.invoked
       /\ ~is_active => last.raised = "GateFailedError"

\* an Omega1 tool run through the facade in strict mode while the gate fails
C17_Witness ==
    /\ FacadeCall /\ strict_mode /\ GateCheck \in FailStatus
    /\ CallRegistered /\ CallOmega = OMEGA_1
    /\ ~is_active /\ ~emergency_active
    /\ last.invoked /\ last.raised = ""
    /\ TheEntry.policy_decision.gate_status = PASS

\* C18 as stated: a call whose policy decision is Review is never executed: no entry
\* with decision Review has executed=true, and the runtime or facade call that got
\* the decision reports PolicyDenied and does not run the tool.
C18_AsStated ==
    /\ \A i \in 1..Len(entries) :
          entries[i].policy_decision.decision = REVIEW => ~entries[i].executed
    /\ ((RuntimeCall \/ FacadeCall) /\ entries # <<>>
          /\ TheEntry.tool_call = last.call
          /\ TheEntry.policy_decision.decision = REVIEW)
       => /\ ~last.invoked
          /\ last.raised = "PolicyDeniedError"

\* an Omega2 tool without approval or grant run through the facade on Review
C18_Witness ==
    /\ FacadeCall /\ CallRegistered /\ CallOmega = OMEGA_2
    /\ ~default_omega2_deny /\ CallHasNoApproval /\ CallHasNoGrant
    /\ TheEntry.policy_decision.decision = REVIEW
    /\ TheEntry.executed
    /\ last.invoked /\ last.raised = ""

\* C19 as stated: the in-memory audit log is append-only: over every step of the
\* runtime, the facade and AuditLogger the entries before the step are a prefix of
\* the entries after it.
C19_AsStated ==
    [][ /\ Len(entries') >= Len(entries)
        /\ SubSeq(entries', 1, Len(entries)) = entries ]_vars

\* C20 as stated: when several callers execute tools concurrently through the
\* facade, the audit entries appear in the order in which their calls arrived: of
\* two entries for different calls, the earlier entry belongs to the call that
\* arrived earlier.
C20_AsStated ==
    \A i, j \in 1..Len(entries) :
        (i < j /\ entries[i].tool_call # entries[j].tool_call)
        => \E a, b \in 1..Len(arrivals) :
              /\ a < b
              /\ arrivals[a] = entries[i].tool_call
              /\ arrivals[b] = entries[j].tool_call

\* two concurrent calls whose entries are in the order their tools finished, the
\* reverse of the order they arrived in
C20_Witness ==
    /\ inflight = {}
    /\ Len(arrivals) = 2 /\ arrivals[1] # arrivals[2]
    /\ Len(entries) = 2
    /\ entries[1].tool_call = arrivals[2]
    /\ entries[2].tool_call = arrivals[1]

\* C21 as stated: when the write of the audit file fails for a FitSecRuntime.execute
\* call, the caller receives an error and the executor has not been run for that
\* call.
C21_AsStated ==
    (RuntimeCall /\ log_to_file /\ ~sink_up)
    => /\ last.raised # ""
       /\ ~last.invoked

\* an executor that ran although no record of the call reached the audit file: the
\* caller gets the OSError and the in-memory log holds two entries for the one call
C21_Witness ==
    /\ RuntimeCall /\ log_to_file /\ ~sink_up
    /\ last.invoked /\ last.raised = SINK_ERROR
    /\ durable = <<>>
    /\ Len(entries) = 2
    /\ entries[1].tool_call = last.call /\ entries[2].tool_call = last.call
    /\ entries[1].executed /\ entries[2].error = Some(SINK_ERROR)

\* the call of the last FitSecRuntime.execute was allowed by policy and its tool has no
\* executor
AllowedWithoutExecutor ==
    /\ RuntimeCall /\ CallRegistered
    /\ TheEntry.policy_decision.decision = ALLOW
    /\ last.call.tool_id \notin executors

\* C22 as stated: when policy allows a call but no executor is registered for the tool,
\* FitSecRuntime.execute runs nothing, logs executed=false with a non-empty error, raises
\* a failure and never returns a result.
C22_AsStated ==
    AllowedWithoutExecutor
    => /\ ~last.invoked
       /\ ~TheEntry.executed
       /\ ~IsNone(TheEntry.error)
       /\ last.raised # ""
       /\ IsNone(last.result)

\* C22: when policy allows a call but no executor is registered for the tool,
\* FitSecRuntime.execute never runs anything and appends one audit entry with
\* executed=false. Without dry_run the entry's error is "NoExecutor", FitSecError is raised
\* and no result is returned; with dry_run the dry-run shortcut comes first: the entry has
\* no error and the call returns the dry-run marker.
C22_NoExecutorFailsUnlessDryRun ==
    /\ [](AllowedWithoutExecutor
          => /\ ~last.invoked
             /\ ~TheEntry.executed
             /\ TheEntry.tool_call = last.call
             /\ ~last.dry_run => /\ TheEntry.error = Some("NoExecutor")
                                 /\ IsNone(TheEntry.result)
                                 /\ last.raised = "FitSecError"
                                 /\ IsNone(last.result)
             /\ last.dry_run => /\ IsNone(TheEntry.error)
                                /\ last.raised = ""
                                /\ last.result = Some(DRY_RUN_MARKER))
    /\ [][ (ncalls' = ncalls + 1 /\ last'.api = "runtime")
           => Len(entries') = Len(entries) + 1 ]_vars

C22_Witness ==
    /\ AllowedWithoutExecutor /\ ~last.dry_run
    /\ last.raised = "FitSecError"
    /\ TheEntry.error = Some("NoExecutor")

\* C23: when an allowed call's executor raises, FitSecRuntime.execute appends exactly one
\* audit entry, for that call, with the allowing decision, executed=true and the
\* exception's message as error, and the caller gets the same exception; the blocklist,
\* the grants, the Emptiness Window and the emergency gate are as before the call, and
\* the approvals differ at most by the expired approval the evaluation pruned.
C23_ExecutorFaultLoggedAndRaised ==
    [][ (ncalls' = ncalls + 1 /\ last'.api = "runtime" /\ last'.raised = "Exception")
        => /\ last'.invoked
           /\ Len(entries') = Len(entries) + 1
           /\ SubSeq(entries', 1, Len(entries)) = entries
           /\ LET e == entries'[Len(entries')] IN
              /\ e.tool_call = last'.call
              /\ e.policy_decision.decision = ALLOW
              /\ e.executed
              /\ IsNone(e.result)
              /\ e.error = Some("boom")
           /\ last'.message = <<"boom">>
           /\ IsNone(last'.result)
           /\ blocked_tools' = blocked_tools /\ grants' = grants
           /\ default_omega2_deny' = default_omega2_deny
           /\ omega2_approvals' = IF last'.pruned
                                  THEN [t \in DOMAIN omega2_approvals \ {last'.call.tool_id}
                                        |-> omega2_approvals[t]]
                                  ELSE omega2_approvals
           /\ UNCHANGED <<emp_state, activated_at, activation_reason, blocked_calls,
                          review_packets>>
           /\ UNCHANGED <<emergency_active, emergency_reason>> ]_vars

C23_Witness ==
    /\ RuntimeCall /\ last.raised = "Exception" /\ last.invoked
    /\ TheEntry.executed /\ TheEntry.error = Some("boom")
    /\ TheEntry.policy_decision.decision = ALLOW

\* the call of the last FitSecRuntime.execute was blocked by one of the steps
BlockedByAStep ==
    \/ ~CallRegistered
    \/ TheEntry.policy_decision.decision # ALLOW

\* what the same call raises without dry_run, in the state the call left
RaisedWithoutDryRun ==
    { ExecuteOutcome(last.call, FALSE, b).raised : b \in Behaviours }

\* C24: with dry_run set, FitSecRuntime.execute never invokes the executor; an allowed
\* call appends one audit entry with decision Allow, executed=false and result
\* "[DRY RUN]" and returns the dry-run marker, also when no executor is registered; a
\* call that a step blocks raises the typed failure it raises without dry_run.
C24_DryRunNeverExecutes ==
    /\ []((RuntimeCall /\ last.dry_run)
          => /\ ~last.invoked
             /\ ~TheEntry.executed
             /\ TheEntry.tool_call = last.call
             /\ ~BlockedByAStep => /\ TheEntry.policy_decision.decision = ALLOW
                                   /\ TheEntry.result = Some("[DRY RUN]")
                                   /\ IsNone(TheEntry.error)
                                   /\ last.raised = ""
                                   /\ last.result = Some(DRY_RUN_MARKER)
             /\ BlockedByAStep => /\ last.raised # ""
                                  /\ RaisedWithoutDryRun = {last.raised})
    /\ [][ (ncalls' = ncalls + 1 /\ last'.api = "runtime" /\ last'.dry_run)
           => Len(entries') = Len(entries) + 1 ]_vars

C24_Witness ==
    /\ RuntimeCall /\ last.dry_run /\ CallRegistered
    /\ last.call.tool_id \notin executors
    /\ last.result = Some(DRY_RUN_MARKER)
    /\ TheEntry.result = Some("[DRY RUN]")

\* the approvals as they are when no approval for the tool was ever granted
NeverApproved(tool_id) ==
    [u \in DOMAIN omega2_approvals \ {tool_id} |-> omega2_approvals[u]]

\* C25: revoke_omega2_approval(t) leaves the approvals without an entry for t and the
\* rest of the policy state as it was, so that every evaluation for t afterwards gives
\* the decision of a policy state in which t was never approved; when t has no approval
\* the revoke changes nothing; grant_omega2_approval(t, D) changes nothing but the
\* approval of t, so a grant followed by a revoke leaves no trace.
C25_RevokeLeavesNoTrace ==
    [][ \A t \in ToolIds :
        /\ RevokeOmega2Approval(t)
           => /\ t \notin DOMAIN omega2_approvals'
              /\ omega2_approvals' = NeverApproved(t)
              /\ t \notin DOMAIN omega2_approvals => omega2_approvals' = omega2_approvals
              /\ UNCHANGED <<blocked_tools, grants, default_omega2_deny, now>>
              /\ \A c \in Calls, o \in OmegaLevel, g \in GateStatus :
                    c.tool_id = t
                    => PolicyEvaluate(c, Some(o), g)'
                       = PolicyEvaluateIn(blocked_tools, NeverApproved(t), now, c, Some(o), g)
        /\ \A d \in Durations :
           GrantOmega2Approval(t, d)
           => /\ NeverApproved(t)' = NeverApproved(t)
              /\ UNCHANGED <<blocked_tools, grants, default_omega2_deny, now>> ]_vars

\* an approval was granted and revoked, and the Omega2 call made next is denied by default
C25_Witness ==
    /\ last.api = "revoke" /\ last.pruned
    /\ omega2_approvals = EmptyDict
    /\ grants = EmptyDict /\ default_omega2_deny /\ blocked_tools = {}
    /\ PolicyEvaluate(ToolCall("tool", "execute"), Some(OMEGA_2), PASS).decision = DENY

\* The ordered rule table of the policy for a call, a manifest (None or an Omega level)
\* and a gate status, in the current policy state: each rule is the condition under which
\* it applies and the decision it gives.
C26_Rules(c, m, g) ==
    << [when |-> m = None, then |-> DENY],
       [when |-> c.tool_id \in blocked_tools, then |-> DENY],
       [when |-> m = Some(OMEGA_0), then |-> ALLOW],
       [when |-> m = Some(OMEGA_1), then |-> IF g \in {PASS, UNKNOWN} THEN ALLOW ELSE DENY],
       [when |-> m = Some(OMEGA_2),
        then |-> IF c.tool_id \in DOMAIN omega2_approvals /\ now < omega2_approvals[c.tool_id]
                 THEN ALLOW
                 ELSE IF c.tool_id \in DOMAIN grants
                         /\ (grants[c.tool_id] \cap {c.action, "*"}) # {}
                 THEN ALLOW
                 ELSE IF default_omega2_deny THEN DENY ELSE REVIEW],
       [when |-> m = Some(UNKNOWN), then |-> DENY] >>

\* first match wins
C26_FirstMatch(rules) ==
    LET i == CHOOSE k \in 1..Len(rules) :
                 rules[k].when /\ \A j \in 1..(k - 1) : ~rules[j].when
    IN  rules[i].then

\* C26: for every call, every manifest (absent, or one of the four Omega levels) and every
\* gate status, in every policy state (blocklist, approvals valid or expired, grants,
\* default_omega2_deny), PolicyEngine.evaluate returns the decision of the ordered rule
\* table with first match winning, with the Omega level and the gate status it was given.
C26_RuleTable ==
    \A c \in Calls, m \in {None} \cup {Some(o) : o \in OmegaLevel}, g \in GateStatus :
        LET d == PolicyEvaluate(c, m, g) IN
        /\ d.decision = C26_FirstMatch(C26_Rules(c, m, g))
        /\ d.gate_status = g
        /\ d.omega_level = IF m = None THEN UNKNOWN ELSE Val(m)

\* an Omega2 call whose approval had expired was allowed by a '*' grant
C26_Witness ==
    /\ RuntimeCall /\ CallRegistered /\ CallOmega = OMEGA_2
    /\ last.pruned
    /\ last.call.tool_id \notin blocked_tools
    /\ last.call.tool_id \in DOMAIN grants
    /\ grants[last.call.tool_id] = {"*"}
    /\ TheEntry.policy_decision.decision = ALLOW
    /\ Mentions(TheEntry.policy_decision.rationale, "O2 - granted by policy")

\* The rules of the monitorability gate on a snapshot, in their fixed order: whether the
\* rule fails, and the status it gives.
C27_Rules(g) ==
    << [fails |-> g.fpr # None /\ Val(g.fpr) > g.fpr_target, status |-> FAIL_FPR],
       [fails |-> g.coverage_at_fpr # None /\ Val(g.coverage_at_fpr) < g.coverage_target,
        status |-> FAIL_COVERAGE],
       [fails |-> g.calibration_score # None
                  /\ Val(g.calibration_score) < g.calibration_threshold,
        status |-> FAIL_CALIBRATION],
       \* std / mean > cv_max with mean > 0, the ratio taken in thousandths
       [fails |-> /\ g.lead_time_mean # None /\ g.lead_time_std # None
                  /\ Val(g.lead_time_mean) > 0
                  /\ Val(g.lead_time_std) * 1000 > g.lead_time_cv_max * Val(g.lead_time_mean),
        status |-> FAIL_LEAD_TIME] >>

C27_FirstFailing(g) ==
    LET rules == C27_Rules(g)
        failing == {k \in 1..Len(rules) : rules[k].fails}
    IN  IF failing = {} THEN PASS
        ELSE rules[CHOOSE k \in failing : \A j \in failing : k <= j].status

\* C27: on a metrics snapshot, MonitorabilityGate.check returns the status of the first
\* failing rule in the order FPR, coverage, calibration, lead time, and Pass when none
\* fails; an absent observation skips its rule, a value equal to its threshold passes,
\* and a lead-time mean that is not positive skips the lead-time rule.
C27_FirstFailingRule ==
    ~IsNone(metrics)
    => LET g == Val(metrics) IN
       /\ GateCheck = C27_FirstFailing(g)
       /\ (g.fpr \in {None, Some(g.fpr_target)}
           /\ g.coverage_at_fpr \in {None, Some(g.coverage_target)}
           /\ g.calibration_score \in {None, Some(g.calibration_threshold)}
           /\ (\/ g.lead_time_mean = None \/ g.lead_time_std = None
               \/ Val(g.lead_time_mean) <= 0
               \/ Val(g.lead_time_std) * 1000 = g.lead_time_cv_max * Val(g.lead_time_mean)))
          => GateCheck = PASS

\* every observation at its threshold passes, and a call saw it
C27_Witness ==
    /\ metrics = Some(GateMetrics(Some(50), Some(800), Some(700), Some(10), Some(5)))
    /\ GateCheck = PASS
    /\ RuntimeCall /\ CallRegistered /\ CallOmega = OMEGA_1
    /\ TheEntry.policy_decision.gate_status = PASS

\* no observation is available to the gate
NoObservation ==
    \/ IsNone(metrics)
    \/ /\ ~IsNone(metrics)
       /\ LET g == Val(metrics) IN
          /\ IsNone(g.fpr) /\ IsNone(g.coverage_at_fpr) /\ IsNone(g.calibration_score)
          /\ IsNone(g.lead_time_mean) /\ IsNone(g.lead_time_std)

\* C28 as stated: MonitorabilityGate.check returns Unknown whenever no observation is
\* available, both when no snapshot was ever supplied and when the current snapshot has
\* every observation absent.
C28_AsStated == NoObservation => GateCheck = UNKNOWN

\* a snapshot with every observation absent is installed, the gate says Pass, and the
\* audit entry of an Omega1 call carries Pass
C28_Witness ==
    /\ ~IsNone(metrics) /\ NoObservation
    /\ GateCheck = PASS
    /\ RuntimeCall /\ CallRegistered /\ CallOmega = OMEGA_1
    /\ TheEntry.policy_decision.gate_status = PASS

\* C29: FitSecRuntime.execute invokes the executor exactly when the audit entry it wrote
\* for the call says executed=true (the model has the single call site of the code, so
\* an invocation is one invocation); on the not-registered, denied, reviewed,
\* missing-executor and dry-run paths the executor is not invoked.
C29_NoHiddenExecution ==
    RuntimeCall
    => /\ TheEntry.tool_call = last.call
       /\ last.invoked <=> TheEntry.executed
       /\ (\/ ~CallRegistered
           \/ TheEntry.policy_decision.decision \in {DENY, REVIEW}
           \/ last.call.tool_id \notin executors
           \/ last.dry_run)
          => ~last.invoked /\ ~TheEntry.executed

C29_Witness ==
    /\ RuntimeCall /\ last.invoked /\ TheEntry.executed
    /\ last.result = Some("ok")
    /\ CallOmega = OMEGA_2

\* The state of the mediation pipeline: registered manifests and executors, blocklist,
\* grants, approvals, policy default, gate metrics, Emptiness Window, emergency gate,
\* strict mode, and the clock.
MediationState ==
    <<tools, executors, blocked_tools, grants, omega2_approvals, default_omega2_deny,
      metrics, emp_state, activation_reason, emergency_active, emergency_reason,
      strict_mode, now>>

\* What a call comes to: its audit entries (decision, rationale, executed flag), the
\* failure it raises and its message, what it returns, whether the executor ran, and
\* the approvals it leaves.
OutcomeOf(tool_call, dry_run, behaviour) ==
    LET out == ExecuteOutcome(tool_call, dry_run, behaviour) IN
    <<out.logged, out.raised, out.message, out.result, out.invoked, out.approvals>>

ReviewedCall ==
    /\ RuntimeCall /\ CallRegistered
    /\ TheEntry.policy_decision.decision = REVIEW

\* C31 as stated: when policy returns Review in FitSecRuntime.execute, the emptiness
\* blocked-call buffer contains the call after the call.
C31_AsStated ==
    ReviewedCall => \E i \in 1..Len(blocked_calls) : blocked_calls[i] = last.call

\* a reviewed call, refused with the review prefix, and nothing in the buffer
C31_Witness ==
    /\ ReviewedCall
    /\ last.raised = "PolicyDeniedError"
    /\ last.message[1] = "Requires human review: "
    /\ emp_state = NORMAL
    /\ blocked_calls = <<>>

\* A runtime call to a registered Omega1 or Omega2 tool in non-strict mode that reaches
\* the gate step (neither the Emptiness Window nor the emergency gate answered before)
\* while the gate's status is a Fail value
NonStrictGateFailCall ==
    /\ RuntimeCall /\ CallRegistered /\ CallOmega \in {OMEGA_1, OMEGA_2}
    /\ ~strict_mode /\ GateCheck \in FailStatus
    /\ ~is_active /\ ~emergency_active

C33_OutcomeWithoutEmergency(tool_call, dry_run, behaviour) ==
    LET manifest == get_manifest(tool_call.tool_id) IN
    IF IsNone(manifest) THEN StepNotRegistered(tool_call)
    ELSE LET omega == Val(manifest)
             gate_status == IF omega \in {OMEGA_1, OMEGA_2} THEN GateCheck ELSE PASS
         IN  IF emp_state = EMPTINESS /\ omega # OMEGA_0 THEN StepEmptiness(tool_call, omega)
             ELSE IF omega \in {OMEGA_1, OMEGA_2} /\ gate_status \in FailStatus /\ strict_mode
             THEN StepGate(tool_call, omega, gate_status)
             ELSE StepPolicy(tool_call, dry_run, behaviour, omega, gate_status)

\* C33: emergency_stop(reason) sets the flag with that reason, also when the flag is
\* already set; the flag and the reason then stay as they are through executes,
\* emptiness transitions and policy changes, and only emergency_clear resets them.
\* emergency_clear leaves the flag off and the reason empty and changes nothing else,
\* and whenever the flag is off every call gets the outcome of a runtime in which the
\* emergency was never declared.
C33_EmergencyLatches ==
    /\ [](~emergency_active
          => /\ emergency_reason = ""
             /\ \A c \in Calls, d \in BOOLEAN, b \in Behaviours :
                   ExecuteOutcome(c, d, b) = C33_OutcomeWithoutEmergency(c, d, b))
    /\ [][ /\ \A r \in LatchReasons :
                EmergencyStop(r) => emergency_active' /\ emergency_reason' = r
           /\ EmergencyClear
              => /\ ~emergency_active' /\ emergency_reason' = ""
                 /\ UNCHANGED <<policy_vars, registry_vars, metrics, emptiness_vars,
                                entries, now>>
           /\ (emergency_active /\ ~EmergencyClear)
              => /\ emergency_active'
                 /\ \/ emergency_reason' = emergency_reason
                    \/ \E r \in LatchReasons : EmergencyStop(r) ]_vars

\* the emergency was declared, a call was refused, it was declared again with another
\* reason, and the next call is refused with the reason of the latest activation
C33_Witness ==
    /\ RuntimeCall /\ emergency_active /\ emergency_reason = "breach"
    /\ Len(entries) = 2
    /\ entries[1].policy_decision.rationale = <<"Emergency gate active: ", "incident">>
    /\ entries[2].policy_decision.rationale = <<"Emergency gate active: ", "breach">>
    /\ last.raised = "GateFailedError"

\* C34 as stated: activating the emergency gate forces the runtime into Emptiness mode:
\* after emergency_stop the emptiness state is Emptiness.
C34_AsStated ==
    [][ \A r \in EmergencyReasons : EmergencyStop(r) => emp_state' = EMPTINESS ]_vars

\* a call refused by the emergency gate while the emptiness state is Normal: the call is
\* in no buffer
C34_Witness ==
    /\ RuntimeCall /\ CallRegistered /\ CallOmega \in {OMEGA_1, OMEGA_2}
    /\ emergency_active
    /\ last.raised = "GateFailedError" /\ last.message = <<"Emergency gate is active">>
    /\ emp_state = NORMAL
    /\ blocked_calls = <<>> /\ review_packets = <<>>

\* C35: activate while the state is Emptiness changes nothing of the window (state,
\* activation time, activation reason, blocked-call buffer, review packets); deactivate
\* while the state is Normal changes nothing of it, returns no packet and creates none.
C35_GuardedTransitions ==
    [][ /\ \A r \in CycleReasons :
             (emp_state = EMPTINESS /\ EnterEmptiness(r))
             => UNCHANGED <<emp_state, activated_at, activation_reason, blocked_calls,
                            review_packets>>
        /\ \A q \in BOOLEAN :
             (emp_state = NORMAL /\ Deactivate(q))
             => /\ UNCHANGED <<emp_state, activated_at, activation_reason, blocked_calls,
                               review_packets>>
                /\ IsNone(last'.packet) ]_vars

\* activate was called at a later time in a window that holds a blocked call: the
\* activation time is still that of the first activation and the buffer is kept
C35_Witness ==
    /\ last.api = "enter_emptiness"
    /\ emp_state = EMPTINESS
    /\ activated_at = Some(0) /\ now > 0
    /\ blocked_calls # <<>>

\* C36: the list of review packets only grows, by one packet at a time at its end, and
\* the packets already in it stay as they are; a new packet is made when a window closes
\* and holds exactly the buffer of that window, which was empty when the window opened
\* and grew only by the calls blocked while it was open.
C36_PacketsAccumulate ==
    [][ /\ Len(review_packets') >= Len(review_packets)
        /\ SubSeq(review_packets', 1, Len(review_packets)) = review_packets
        /\ Len(review_packets') > Len(review_packets)
           => /\ Len(review_packets') = Len(review_packets) + 1
              /\ emp_state = EMPTINESS /\ emp_state' = NORMAL
              /\ review_packets'[Len(review_packets')].blocked_calls = blocked_calls
              /\ blocked_calls # <<>>
        /\ (emp_state = NORMAL /\ emp_state' = EMPTINESS) => blocked_calls' = <<>>
        /\ (emp_state = EMPTINESS /\ emp_state' = EMPTINESS
              /\ blocked_calls' # blocked_calls)
           => /\ ncalls' = ncalls + 1
              /\ blocked_calls' = Append(blocked_calls, last'.call) ]_vars

\* two windows, one blocked call in each: two packets, the second without the call of
\* the first
C36_Witness ==
    /\ Len(review_packets) = 2
    /\ review_packets[1].blocked_calls = <<ToolCall("tool", "execute")>>
    /\ review_packets[2].blocked_calls = <<ToolCall("tool", "run")>>
    /\ review_packets[1].timestamp < review_packets[2].timestamp

\* C39: whenever the emptiness state is Normal, the blocked-call buffer is empty, the
\* activation time is unset and the activation reason is empty; the buffer changes only
\* by being emptied or by the call just blocked in the open window being appended, so it
\* holds the calls blocked since the most recent activation.
C39_NormalMeansEmpty ==
    /\ [](emp_state = NORMAL
          => /\ blocked_calls = <<>>
             /\ activated_at = None
             /\ activation_reason = "")
    /\ [][ blocked_calls' # blocked_calls
           => \/ blocked_calls' = <<>>
              \/ /\ emp_state = EMPTINESS /\ emp_state' = EMPTINESS
                 /\ ncalls' = ncalls + 1
                 /\ last'.raised # ""
                 /\ blocked_calls' = Append(blocked_calls, last'.call) ]_vars

\* a window with a blocked call was closed without review: Normal, nothing buffered, no
\* packet, and the refused call in the audit log
C39_Witness ==
    /\ last.api = "deactivate" /\ IsNone(last.packet)
    /\ emp_state = NORMAL /\ blocked_calls = <<>> /\ review_packets = <<>>
    /\ activated_at = None /\ activation_reason = ""
    /\ entries # <<>> /\ TheEntry.error = Some("EmptinessActiveError")

\* C37 as stated: when an in-flight tool execution started through
\* SecureToolRegistry.execute is cancelled, the audit log holds an entry for that call
\* with executed=true and error "cancelled".
C37_AsStated ==
    last.api = "facade_cancel"
    => \E i \in 1..Len(entries) :
          /\ entries[i].tool_call = last.call
          /\ entries[i].executed
          /\ entries[i].error = Some("cancelled")

\* a tool was started and its task cancelled: the caller gets CancelledError and the
\* audit log has no entry at all
C37_Witness ==
    /\ last.api = "facade_cancel" /\ last.raised = "CancelledError" /\ last.invoked
    /\ Len(arrivals) = 1 /\ inflight = {}
    /\ entries = <<>>

\* C38 as stated: a tool execution started through the facade starts in a state that
\* passes the checks: a tool that is not Omega0 is not started while the Emptiness Window
\* is active, and no tool is started that is blocklisted or (being Omega2 without a
\* grant) has no approval, its only approval having been revoked.
C38_AsStated ==
    (last.api = "facade_start" /\ last.invoked)
    => /\ is_active => CallOmega = OMEGA_0
       /\ last.call.tool_id \notin blocked_tools
       /\ (CallOmega = OMEGA_2 /\ CallHasNoGrant)
          => last.call.tool_id \in DOMAIN omega2_approvals

\* an Omega2 tool without approval or grant, started by the facade on a Review decision
C38_Witness ==
    /\ last.api = "facade_start" /\ last.invoked
    /\ CallOmega = OMEGA_2 /\ CallHasNoGrant
    /\ omega2_approvals = EmptyDict
    /\ ~default_omega2_deny
    /\ \E task \in inflight : task.call = last.call /\ task.decision.decision = REVIEW

\* C40 as stated: also when the write of the audit file fails, one
\* FitSecRuntime.execute call appends at most one entry to the in-memory audit log.
C40_AsStated ==
    [][ (ncalls' = ncalls + 1 /\ last'.api = "runtime")
        => Len(entries') <= Len(entries) + 1 ]_vars

\* the executor returned, the write failed: the in-memory log says for the one call both
\* that it returned "ok" without error and that it failed with no result
C40_Witness ==
    /\ RuntimeCall /\ log_to_file /\ ~sink_up
    /\ Len(entries) >= 2
    /\ LET a == entries[Len(entries) - 1]
           b == entries[Len(entries)]
       IN  /\ a.tool_call = last.call /\ b.tool_call = last.call
           /\ a.result = Some("ok") /\ IsNone(a.error)
           /\ IsNone(b.result) /\ b.error = Some(SINK_ERROR)

====
